---- MODULE Spec2Model ----
(***************************************************************************)
(* Model of the orchestration engine of multi-agent-reasoning              *)
(* (src/reasoning.py): the per-agent conversation logs with token-budget   *)
(* eviction, the retry/backoff loop around the remote completion call, and *)
(* the discuss / verify / critique / refine / blend round.                 *)
(***************************************************************************)
EXTENDS Integers, Sequences, FiniteSets, TLC

\* ------------------------------------------------------------------------
\* Program constants
\* ------------------------------------------------------------------------
MAX_TOTAL_TOKENS == 4096
MAX_CHAT_HISTORY_TOKENS == 4096
RETRY_LIMIT == 3
RETRY_BACKOFF_FACTOR == 2
MAX_REFINEMENT_ATTEMPTS == 3
\* backoff = 1, set before the retry loop and never changed.
BACKOFF_BASE == 1

\* ------------------------------------------------------------------------
\* Bounds of the model
\* ------------------------------------------------------------------------
\* Longest conversation log to which the store and call harnesses append.
MaxLog == 3
\* Longest time one remote completion request takes, in seconds.
MaxLatency == 1

\* Number of agents in the list built by initialize_agents.
NumAgents == 2

Agents == 0 .. (NumAgents - 1)
NoAgent == -1
Roles == {"user", "assistant"}
Modes == {"reasoning", "chat"}

\* ------------------------------------------------------------------------
\* Texts.  A text is told apart by what it is (id), by the request it
\* answers (agent, action, iteration) and carries its token count, which is
\* all the conversation store reads of it.
\* ------------------------------------------------------------------------
Text(id, by, act, n, tokens) ==
    [id |-> id, by |-> by, act |-> act, n |-> n, tokens |-> tokens]

\* The sentinel returned by a completion call that exhausted its retries.
SENTINEL ==
    Text("An error occurred while generating a response.", NoAgent, "", 0, 9)
\* Mutant of BLEND_SENTINEL: the sentinel of the completion call is used.
BlendSentinelOfCall ==
    Text("An error occurred while generating a response.", NoAgent, "", 0, 9)

\* What blend_responses returns when the blend call raises.
BLEND_SENTINEL ==
    Text("An error occurred while attempting to blend responses.",
         NoAgent, "", 0, 9)
\* No text (None, or a dictionary key not yet set).
NoText == Text("", NoAgent, "", 0, 0)
\* The prompt the user typed (more than four characters).
UserPrompt == Text("prompt", NoAgent, "", 0, 8)
\* extended_prompt when local context was retrieved: the prompt followed by
\* "--- Additional local memory context ---" and the context.
ExtendedPrompt == Text("prompt+context", NoAgent, "", 0, 40)
\* "Do you have any insights on this topic?"
HelpQuestion == Text("question", NoAgent, "", 0, 9)

\* Token counts of the replies the model draws: one token, exactly half the
\* budget, most of the budget, more than the budget.
TokenSizes == {1, 2048, 3000, 5000}

\* response.choices[0].message.content.strip(): the reply to agent by's
\* request act (iteration n), of the given length.
ReplyText(by, act, n, tokens) == Text("reply", by, act, n, tokens)

\* len(encoding.encode(text))
TokenLen(text) == text.tokens

Message(role, content) == [role |-> role, content |-> content]

\* sum(len(encoding.encode(msg['content'])) for msg in log)
RECURSIVE TotalTokens(_)
TotalTokens(log) ==
    IF log = << >> THEN 0
    ELSE TokenLen(Head(log).content) + TotalTokens(Tail(log))

\* Mutant of EvictOldest: evicts without keeping the last message.
RECURSIVE EvictNoGuard(_, _)
EvictNoGuard(log, limit) ==
    IF TotalTokens(log) > limit
    THEN EvictNoGuard(Tail(log), limit)
    ELSE log

\* Mutant of EvictOldest: pops the newest of the old messages, not the oldest.
RECURSIVE EvictNewest(_, _)
EvictNewest(log, limit) ==
    IF TotalTokens(log) > limit /\ Len(log) > 1
    THEN EvictNewest(SubSeq(log, 1, Len(log) - 2) \o <<log[Len(log)]>>, limit)
    ELSE log

\* Mutant of EvictOldest: a log that holds exactly the budget is evicted too.
RECURSIVE EvictAtLimit(_, _)
EvictAtLimit(log, limit) ==
    IF TotalTokens(log) >= limit /\ Len(log) > 1
    THEN EvictAtLimit(Tail(log), limit)
    ELSE log

\* while total_tokens > limit and len(log) > 1: log.pop(0)
RECURSIVE EvictOldest(_, _)
EvictOldest(log, limit) ==
    IF TotalTokens(log) > limit /\ Len(log) > 1
    THEN EvictOldest(Tail(log), limit)
    ELSE log

ModeLimit(mode) ==
    IF mode = "chat" THEN MAX_CHAT_HISTORY_TOKENS ELSE MAX_TOTAL_TOKENS

\* The list _add_message leaves behind: the message appended, then eviction.
AddMessage(log, role, content, mode) ==
    EvictOldest(Append(log, Message(role, content)), ModeLimit(mode))

\* Mutant of BackoffTime: the exponent is retries instead of retries - 1.
BackoffTimeFromFactor(retries) ==
    BACKOFF_BASE * (RETRY_BACKOFF_FACTOR ^ retries)

\* backoff * (RETRY_BACKOFF_FACTOR ** (retries - 1))
BackoffTime(retries) == BACKOFF_BASE * (RETRY_BACKOFF_FACTOR ^ (retries - 1))

\* ------------------------------------------------------------------------
\* State
\* ------------------------------------------------------------------------
VARIABLES
    messages,       \* Agent.messages of each agent (the reasoning log)
    chat_history,   \* Agent.chat_history of each agent
    lastAppend,     \* per agent and mode: the log before the latest append
                    \* and the message appended (history variable)
    frame,          \* per thread: the completion call it is executing
    stage,          \* where reasoning_logic is in the round
    idx,            \* index of the current agent in the stage's loop
    phase,          \* where the stage's loop body is
    askOther,       \* "ask-other" occurs in the extended prompt
    replyTokens,    \* token count of the replies the service writes
    helpResp,       \* help_response of the current Discuss iteration
    opinions,       \* opinions[agent]
    verified,       \* verified_opinions[agent]
    critiques,      \* critiques[agent]
    refined,        \* refined_opinions[agent]
    blended,        \* optimal_response
    task,           \* the futures of the Verify stage, in submission order
    refineLocal,    \* locals of Agent.refine: the iteration and its input
    failedCalls,    \* calls of the round that ended with a sentinel
    acts,           \* per stage and agent: actions started and finished
                    \* (history variable)
    preVerify,      \* the reasoning logs when the Verify stage began
                    \* (history variable)
    firstDone,      \* the Verify task that finished first, until the
                    \* Critique stage acts (history variable)
    critiqued,      \* per agent: the agent whose verified text it was
                    \* handed to critique (history variable)
    durKeys,        \* per stage: the keys of the stage's durations map
    lastRefine,     \* per agent: the arguments and the number of
                    \* completion calls of its latest refine action
                    \* (history variable)
    lastBlend,      \* the arguments and the number of requests of the
                    \* latest blend_responses call (history variable)
    extended,       \* extended_prompt
    refine_count,   \* refine_count of the feedback loop
    more_time,      \* more_time of the feedback loop
    asked,          \* the answers to the more-time question, in order
                    \* (history variable)
    user_feedback,  \* user_feedback: the last feedback answer read
    history,        \* the records appended to reasoning_history.json
    allowed,        \* calls of the round that the service lets end with
                    \* a sentinel
    refine_durations, \* refine_durations[agent], in seconds
    refineLog,      \* per agent: the durations its refine actions
                    \* returned, in order (history variable)
    files,          \* per channel: the content of the history file
    writer,         \* per program instance: where its call of
                    \* append_session_record is, and its locals
    found,          \* the latest get_local_context_for_prompt call: its
                    \* arguments, the file it read and what it returned
    clock,          \* the local time, in seconds
    saved,          \* per channel: the records whose append returned, in
                    \* order (history variable)
    config,         \* the content of agents.json
    roster,         \* per pipeline: whether its agents were initialized,
                    \* and the agents it got
    typed,          \* the line last read at the prompt of reasoning_logic
    rounds,         \* rounds of reasoning_logic that reached Blend
                    \* (history variable)
    calls,          \* agent actions and blend calls reasoning_logic has
                    \* made (history variable)
    swarm           \* run_swarm_reasoning: where it is, its dictionaries
                    \* and the prompts it has sent

storeVars == <<messages, chat_history, lastAppend>>
\* The round and the session follow the durations maps by their keys
\* (durKeys); the values of refine_durations are followed in the timed
\* feedback loop.
timedVars == <<refine_durations, refineLog>>
fileVars == <<files, writer, found, clock, saved>>
configVars == <<config, roster>>
promptVars == <<typed, rounds, calls>>
sideVars == <<timedVars, fileVars, configVars, promptVars, swarm>>
feedbackVars == <<extended, refine_count, more_time, asked, user_feedback,
                  history, allowed>>
loopVars == <<feedbackVars, sideVars>>
pipelineVars == <<stage, idx, phase, askOther, replyTokens, helpResp,
                  opinions, verified, critiques, refined, blended, task,
                  refineLocal, failedCalls, acts, preVerify, firstDone,
                  critiqued, durKeys, lastRefine, lastBlend, feedbackVars>>
roundVars == <<pipelineVars, sideVars>>
vars == <<messages, chat_history, lastAppend, frame, stage, idx, phase,
          askOther, replyTokens, helpResp, opinions, verified, critiques,
          refined, blended, task, refineLocal, failedCalls, acts, preVerify,
          firstDone, critiqued, durKeys, lastRefine, lastBlend, extended,
          refine_count, more_time, asked, user_feedback, history, allowed,
          refine_durations, refineLog, files, writer, found, clock, saved,
          config, roster, typed, rounds, calls, swarm>>

\* Threads: worker i runs the i-th task handed to the executor; the main
\* thread runs everything else.
MainThread == NumAgents
Threads == 0 .. NumAgents

NoAppend == [before |-> << >>, msg |-> Message("none", NoText)]

LogOf(a, mode) == IF mode = "chat" THEN chat_history[a] ELSE messages[a]

IdleFrame ==
    [pc |-> "idle", agent |-> NoAgent, mode |-> "", action |-> "", n |-> 0,
     prompt |-> NoText, snapshot |-> << >>, retries |-> 0, elapsed |-> 0,
     attempts |-> 0, sleeps |-> << >>, encFail |-> FALSE, appended |-> 0,
     reply |-> NoText, duration |-> 0]

Stages == {"discuss", "verify", "critique", "refine"}

NoTexts == [a \in Agents |-> NoText]
NoTask == [state |-> "none", agent |-> NoAgent, data |-> NoText,
           result |-> NoText]
NoActs == [s \in Stages |-> [a \in Agents |-> [started |-> 0, finished |-> 0]]]
NoLogs == [a \in Agents |-> << >>]
NoRefine == [iter |-> 0, response |-> NoText, k |-> 0, data |-> NoText,
             moreTime |-> FALSE, total |-> 0, outs |-> << >>, durs |-> << >>]
NoCritiqued == [a \in Agents |-> NoAgent]
NoDurKeys == [s \in Stages |-> {}]
NoRefineCall == [data |-> NoText, moreTime |-> FALSE, k |-> 0, rounds |-> 0]
NoRefineCalls == [a \in Agents |-> NoRefineCall]
NoBlend == [question |-> NoText, responses |-> << >>, requests |-> 0,
            logs |-> NoLogs, failed |-> FALSE]
\* refine_durations = {}
NoDurations == [a \in {} |-> 0]
NoDurationLog == [a \in Agents |-> << >>]

\* The history files: 'reasoning_history.json' (channel "reasoning") and
\* 'swarm_reasoning_history.json' (channel "swarm").  A file is absent, or
\* holds bytes that are no UTF-8 text ("undecodable"), text that is no JSON
\* ("invalid"), a JSON value that is no list ("other"), or a JSON list.
Channels == {"reasoning", "swarm"}
FileOf(kind) == [kind |-> kind, items |-> << >>]
NoFile == FileOf("absent")
\* The program instances that share the working directory.
Instances == {1, 2}
NoRecord ==
    [timestamp |-> << >>, user_prompt |-> << >>, final_response |-> << >>,
     user_feedback |-> "", context_retained |-> FALSE]
IdleWriter ==
    [pc |-> "idle", channel |-> "reasoning", path |-> "reasoning",
     record |-> NoRecord, data |-> << >>]
\* The pipelines that initialize agents from agents.json.
Pipelines == {"reasoning", "swarm"}
NoRoster == [state |-> "none", agents |-> << >>]
\* No refine prompt sent yet.
NoSwarmPrompt == [named |-> NoAgent, original |-> NoText, critique |-> NoText]
\* run_swarm_reasoning has not been called.
NoSwarm ==
    [step |-> "idle", i |-> 0, num_agents |-> 0, opinions |-> << >>,
     verified_opinions |-> << >>, critiques |-> << >>,
     refined_opinions |-> << >>, refine_prompts |-> << >>]
NoFound ==
    [state |-> "none", channel |-> "reasoning", prompt |-> << >>,
     max_records |-> 0, file |-> NoFile, contexts |-> << >>]

\* Agent.__init__: both logs start empty; no call is running and
\* reasoning_logic waits for a prompt.
InitAgents ==
    /\ messages = [a \in Agents |-> << >>]
    /\ chat_history = [a \in Agents |-> << >>]
    /\ lastAppend = [a \in Agents |-> [m \in Modes |-> NoAppend]]
    /\ frame = [t \in Threads |-> IdleFrame]
    /\ stage = "idle"
    /\ idx = 0
    /\ phase = "loop"
    /\ askOther = FALSE
    /\ replyTokens = 1
    /\ helpResp = NoText
    /\ opinions = NoTexts
    /\ verified = NoTexts
    /\ critiques = NoTexts
    /\ refined = NoTexts
    /\ blended = NoText
    /\ task = [i \in Agents |-> NoTask]
    /\ refineLocal = NoRefine
    /\ failedCalls = 0
    /\ acts = NoActs
    /\ preVerify = NoLogs
    /\ firstDone = NoAgent
    /\ critiqued = NoCritiqued
    /\ durKeys = NoDurKeys
    /\ lastRefine = NoRefineCalls
    /\ lastBlend = NoBlend
    /\ extended = NoText
    /\ refine_count = 0
    /\ more_time = FALSE
    /\ asked = << >>
    /\ user_feedback = "none"
    /\ history = << >>
    /\ allowed = 0
    /\ refine_durations = NoDurations
    /\ refineLog = NoDurationLog
    /\ files = [ch \in Channels |-> NoFile]
    /\ writer = [w \in Instances |-> IdleWriter]
    /\ found = NoFound
    /\ clock = 0
    /\ saved = [ch \in Channels |-> << >>]
    /\ config = NoFile
    /\ roster = [p \in Pipelines |-> NoRoster]
    /\ typed = << >>
    /\ rounds = 0
    /\ calls = 0
    /\ swarm = NoSwarm

\* Agent._add_message(role, content, mode) with the encoding available.
DoAddMessage(a, role, content, mode) ==
    /\ lastAppend' = [lastAppend EXCEPT ![a][mode] =
            [before |-> LogOf(a, mode), msg |-> Message(role, content)]]
    /\ IF mode = "chat"
       THEN /\ chat_history' = [chat_history EXCEPT
                    ![a] = AddMessage(@, role, content, mode)]
            /\ UNCHANGED messages
       ELSE /\ messages' = [messages EXCEPT
                    ![a] = AddMessage(@, role, content, mode)]
            /\ UNCHANGED chat_history

\* handle_special_commands, 'clear': both logs of every listed agent.
ClearAll ==
    /\ messages' = [a \in Agents |-> << >>]
    /\ chat_history' = [a \in Agents |-> << >>]
    /\ lastAppend' = [a \in Agents |-> [m \in Modes |-> NoAppend]]

\* ------------------------------------------------------------------------
\* The completion call: Agent._handle_reasoning_logic (mode "reasoning")
\* and Agent._handle_chat_interaction (mode "chat"), run by thread t.
\* ------------------------------------------------------------------------

\* Entry: the request is built from the agent's log, the clock is started,
\* retries = 0, and the loop is entered (0 < RETRY_LIMIT).
CallBegin(t, a, mode, action, n, prompt) ==
    /\ frame[t].pc = "idle"
    /\ frame' = [frame EXCEPT ![t] =
            [IdleFrame EXCEPT !.pc = "request", !.agent = a, !.mode = mode,
                              !.action = action, !.n = n, !.prompt = prompt,
                              !.snapshot = LogOf(a, mode)]]

\* Mutant of AfterFailure: at the limit the exception is raised again
\* instead of the sentinel being returned.
AfterFailureRaises(f, lat) ==
    IF f.retries + 1 >= RETRY_LIMIT
    THEN [f EXCEPT !.pc = "raised", !.retries = @ + 1,
                   !.attempts = @ + 1, !.elapsed = @ + lat]
    ELSE [f EXCEPT !.pc = "sleep", !.retries = @ + 1,
                   !.attempts = @ + 1, !.elapsed = @ + lat]

\* Mutant of AfterFailure: the limit is tested with > instead of >=.
AfterFailureOffByOne(f, lat) ==
    IF f.retries + 1 > RETRY_LIMIT
    THEN [f EXCEPT !.pc = "returned", !.retries = @ + 1,
                   !.attempts = @ + 1, !.elapsed = @ + lat,
                   !.reply = SENTINEL, !.duration = f.elapsed + lat]
    ELSE [f EXCEPT !.pc = "sleep", !.retries = @ + 1,
                   !.attempts = @ + 1, !.elapsed = @ + lat]

\* The except branch: retries += 1; at the limit break and return the
\* sentinel with the time elapsed, otherwise go to sleep.
AfterFailure(f, lat) ==
    IF f.retries + 1 >= RETRY_LIMIT
    THEN [f EXCEPT !.pc = "returned", !.retries = @ + 1,
                   !.attempts = @ + 1, !.elapsed = @ + lat,
                   !.reply = SENTINEL, !.duration = f.elapsed + lat]
    ELSE [f EXCEPT !.pc = "sleep", !.retries = @ + 1,
                   !.attempts = @ + 1, !.elapsed = @ + lat]

\* Mutant of CallRemoteFails: the sentinel is stored like a reply.
CallRemoteFailsStoresSentinel(t, lat) ==
    /\ frame[t].pc = "request"
    /\ frame' = [frame EXCEPT ![t] = AfterFailure(@, lat)]
    /\ IF frame[t].retries + 1 >= RETRY_LIMIT
       THEN DoAddMessage(frame[t].agent, "assistant", SENTINEL, frame[t].mode)
       ELSE UNCHANGED storeVars

\* The remote request raises (or its reply has no content to strip).
CallRemoteFails(t, lat) ==
    /\ frame[t].pc = "request"
    /\ frame' = [frame EXCEPT ![t] = AfterFailure(@, lat)]
    /\ UNCHANGED storeVars

\* The remote request returns a reply, and _add_message raises because
\* tiktoken.get_encoding fails: the raise happens inside the try block, so
\* the same except branch handles it.
CallEncodingFails(t, lat) ==
    /\ frame[t].pc = "request"
    /\ frame' = [frame EXCEPT ![t] = [AfterFailure(@, lat) EXCEPT !.encFail = TRUE]]
    /\ UNCHANGED storeVars

\* Mutant of StoredRole: the reply is stored under the role of the prompts.
StoredRoleUser == "user"

\* self._add_message("assistant", assistant_reply, ...): the role the reply
\* is stored under; the prompt and the system message are put in the local
\* request list only.
StoredRole == "assistant"

\* The remote request returns a reply: it is stored and returned.
CallSucceeds(t, tokens, lat) ==
    /\ frame[t].pc = "request"
    /\ LET f == frame[t]
           reply == ReplyText(f.agent, f.action, f.n, tokens)
       IN /\ DoAddMessage(f.agent, StoredRole, reply, f.mode)
          /\ frame' = [frame EXCEPT ![t] =
                [f EXCEPT !.pc = "returned", !.attempts = @ + 1,
                          !.elapsed = @ + lat, !.appended = @ + 1,
                          !.reply = reply, !.duration = f.elapsed + lat]]

\* time.sleep(backoff_time), then the loop condition holds again.
CallWake(t) ==
    /\ frame[t].pc = "sleep"
    /\ frame' = [frame EXCEPT ![t] =
            [@ EXCEPT !.pc = "request",
                      !.sleeps = Append(@, BackoffTime(frame[t].retries)),
                      !.elapsed = @ + BackoffTime(frame[t].retries)]]
    /\ UNCHANGED storeVars

\* ------------------------------------------------------------------------
\* The conversation store on its own: any sequence of appends and clears.
\* ------------------------------------------------------------------------
\* The store under test is one log at a time: every other log is empty.
StoreFocus(a, mode) ==
    \A b \in Agents, m \in Modes :
        (b # a \/ m # mode) => LogOf(b, m) = << >>

StoreAppend ==
    \E a \in Agents, role \in Roles, tokens \in TokenSizes, mode \in Modes :
        /\ StoreFocus(a, mode)
        /\ Len(LogOf(a, mode)) < MaxLog
        /\ DoAddMessage(a, role, ReplyText(a, mode, 0, tokens), mode)
        /\ UNCHANGED <<frame, roundVars>>

StoreClear == ClearAll /\ UNCHANGED <<frame, roundVars>>

NextStore == StoreAppend \/ StoreClear

SpecStore == InitAgents /\ [][NextStore]_vars

\* ------------------------------------------------------------------------
\* The completion call on its own: the main thread makes calls, one after
\* the other, in either mode, against every behaviour of the remote service.
\* ------------------------------------------------------------------------
Latencies == 0 .. MaxLatency

\* chat_with_agents calls _handle_chat_interaction; discuss, verify,
\* critique and refine call _handle_reasoning_logic.
CallStart ==
    \E a \in Agents, mode \in Modes :
        /\ StoreFocus(a, mode)
        /\ Len(LogOf(a, mode)) < MaxLog
        /\ CallBegin(MainThread, a, mode,
                     IF mode = "chat" THEN "chat" ELSE "discuss", 0,
                     UserPrompt)
        /\ UNCHANGED <<storeVars, roundVars>>

CallStepFail ==
    /\ \E lat \in Latencies : CallRemoteFails(MainThread, lat)
    /\ UNCHANGED roundVars

CallStepEncoding ==
    /\ \E lat \in Latencies : CallEncodingFails(MainThread, lat)
    /\ UNCHANGED roundVars

CallStepOk ==
    /\ \E tokens \in TokenSizes, lat \in Latencies :
            CallSucceeds(MainThread, tokens, lat)
    /\ UNCHANGED roundVars

CallStepWake == CallWake(MainThread) /\ UNCHANGED roundVars

\* The caller takes (reply, duration).
CallReturn ==
    /\ frame[MainThread].pc = "returned"
    /\ frame' = [frame EXCEPT ![MainThread] = IdleFrame]
    /\ UNCHANGED <<storeVars, roundVars>>

CallClear ==
    /\ frame[MainThread].pc = "idle"
    /\ ClearAll
    /\ UNCHANGED <<frame, roundVars>>

NextCall ==
    \/ CallStart \/ CallStepFail \/ CallStepEncoding \/ CallStepOk
    \/ CallStepWake \/ CallReturn \/ CallClear

SpecCall == InitAgents /\ [][NextCall]_vars

\* ------------------------------------------------------------------------
\* The round: reasoning_logic from the Discuss stage to the blended answer.
\* ------------------------------------------------------------------------
\* Default of the iterations parameter of Agent.refine.
REFINE_ITERATIONS == 2

\* Most calls of one round that the model lets end with a sentinel.
MaxFailedCalls == 2

Prompt(kind, data, help, moreTime) ==
    [kind |-> kind, data |-> data, help |-> help, moreTime |-> moreTime]

\* full_opinion_prompt: the extended prompt, with the helper's answer when
\* one was asked for.
DiscussPrompt(help) == Prompt("discuss", extended, help, FALSE)
\* "Verify the accuracy of the following information:\n\n{data}"
VerifyPrompt(data) == Prompt("verify", data, NoText, FALSE)
\* "Critique the following response for accuracy and completeness:..."
CritiquePrompt(other) == Prompt("critique", other, NoText, FALSE)
\* "Please refine the following response ...", with the more-time directive
RefinePrompt(data, moreTime) == Prompt("refine", data, NoText, moreTime)
\* "Please further refine the following response:\n\n{refined_response}"
FurtherRefinePrompt(data) == Prompt("further", data, NoText, FALSE)

\* agents[(agents.index(agent) + 1) % len(agents)]
HelperOf(i) == (i + 1) % NumAgents
\* Mutant of CritiqueTarget: every agent critiques its own verified text.
CritiqueTargetSelf(i) == i

\* other_agent = agents[(i + 1) % num_agents]
CritiqueTarget(i) == (i + 1) % NumAgents

\* Mutant of LastAgent: the loop stops one agent early.
LastAgentEarly(i) == i + 1 >= NumAgents - 1

\* `for agent in agents`: i is the last index of the list.
LastAgent(i) == i + 1 = NumAgents

\* Mutant of VerifyTaskAgent: every task is handed the last agent of the list.
VerifyTaskAgentLast(i) == NumAgents - 1

\* executor.submit(process_agent_action, agent, 'verify', ...): the agent
\* the i-th task is handed.
VerifyTaskAgent(i) == i

\* Mutant of FutureAgent: every result is filed under the last agent.
FutureAgentLast(i) == NumAgents - 1

\* futures[future]: the agent the i-th future is filed under.
FutureAgent(i) == i

\* Mutant of FutureDone: the result is taken without waiting for the task.
FutureNoWait(i) == task[i].state \in {"queued", "running", "finished"}

\* future.result() returns once the task has finished.
FutureDone(i) == task[i].state = "finished"

Started(s, a) == [acts EXCEPT ![s][a].started = @ + 1]
Finished(s, a) == [acts EXCEPT ![s][a].finished = @ + 1]

\* The frame of a call at its entry (CallBegin as a value).
BeginFrame(a, action, n, prompt) ==
    [IdleFrame EXCEPT !.pc = "request", !.agent = a, !.mode = "reasoning",
                      !.action = action, !.n = n, !.prompt = prompt,
                      !.snapshot = messages[a]]

\* The reply sizes of a round: every reply fits the log with its
\* predecessors (1), or every append evicts the older messages (3000).
RoundSizes == {1, 3000}

\* A prompt of more than four characters that is no command is read; the
\* round's dictionaries are created empty.
EnterRound ==
    /\ stage' = "discuss"
    /\ idx' = 0
    /\ phase' = "loop"
    /\ helpResp' = NoText
    /\ opinions' = NoTexts
    /\ verified' = NoTexts
    /\ critiques' = NoTexts
    /\ refined' = NoTexts
    /\ blended' = NoText
    /\ task' = [i \in Agents |-> NoTask]
    /\ refineLocal' = NoRefine
    /\ failedCalls' = 0
    /\ acts' = NoActs
    /\ preVerify' = NoLogs
    /\ firstDone' = NoAgent
    /\ critiqued' = NoCritiqued
    /\ durKeys' = NoDurKeys
    /\ lastRefine' = NoRefineCalls
    /\ lastBlend' = NoBlend
    /\ refine_count' = 0
    /\ more_time' = FALSE
    /\ asked' = << >>
    /\ user_feedback' = "none"
    /\ UNCHANGED <<sideVars, storeVars, frame, history>>

\* The first prompt of a run whose history file holds no record that
\* matches it: no local context is retrieved.
StartRound ==
    /\ stage = "idle"
    /\ \E ask \in BOOLEAN, tokens \in RoundSizes :
        /\ askOther' = ask
        /\ replyTokens' = tokens
    /\ extended' = UserPrompt
    /\ allowed' = MaxFailedCalls
    /\ EnterRound

\* ---- the steps of a completion call made in the round, by thread t ----
RoundLatency == MaxLatency

Exhausts(t) == frame[t].retries + 1 >= RETRY_LIMIT

\* An attempt raises inside the try block, whatever raised (the request,
\* or _add_message storing its reply): the except branch is the same.
RoundAttemptFails ==
    \E t \in Threads :
        /\ frame[t].pc = "request"
        /\ Exhausts(t) => failedCalls < allowed
        /\ CallRemoteFails(t, RoundLatency)
        /\ failedCalls' = IF Exhausts(t) THEN failedCalls + 1 ELSE failedCalls
        /\ UNCHANGED <<stage, idx, phase, askOther, replyTokens, helpResp,
                       opinions, verified, critiques, refined, blended, task,
                       refineLocal, acts, preVerify, firstDone,
                   critiqued, durKeys, lastRefine, lastBlend, loopVars>>

RoundSucceeds ==
    \E t \in Threads :
        /\ CallSucceeds(t, replyTokens, RoundLatency)
        /\ UNCHANGED roundVars

RoundWake ==
    \E t \in Threads :
        /\ CallWake(t)
        /\ UNCHANGED roundVars

\* ---- Step 1: Discuss (sequential) ----
\* agent.ask_other_agent(helper_agent, ...): the helper's discuss is called.
DiscussAsk ==
    /\ stage = "discuss" /\ phase = "loop"
    /\ askOther /\ NumAgents > 1
    /\ CallBegin(MainThread, HelperOf(idx), "reasoning", "discuss", 0,
                 Prompt("discuss", HelpQuestion, NoText, FALSE))
    /\ phase' = "help"
    /\ UNCHANGED <<storeVars, stage, idx, askOther, replyTokens, helpResp,
                   opinions, verified, critiques, refined, blended, task,
                   refineLocal, failedCalls, acts, preVerify, firstDone,
                   critiqued, durKeys, lastRefine, lastBlend, loopVars>>

\* help_response = the helper's reply (or the sentinel).
DiscussHelped ==
    /\ stage = "discuss" /\ phase = "help"
    /\ frame[MainThread].pc = "returned"
    /\ helpResp' = frame[MainThread].reply
    /\ frame' = [frame EXCEPT ![MainThread] = IdleFrame]
    /\ phase' = "own"
    /\ UNCHANGED <<storeVars, stage, idx, askOther, replyTokens,
                   opinions, verified, critiques, refined, blended, task,
                   refineLocal, failedCalls, acts, preVerify, firstDone,
                   critiqued, durKeys, lastRefine, lastBlend, loopVars>>

\* process_agent_action(agent, 'discuss', full_opinion_prompt)
DiscussBegin ==
    /\ stage = "discuss"
    /\ \/ phase = "own"
       \/ phase = "loop" /\ ~(askOther /\ NumAgents > 1)
    /\ CallBegin(MainThread, idx, "reasoning", "discuss", 0,
                 DiscussPrompt(helpResp))
    /\ phase' = "call"
    /\ acts' = Started("discuss", idx)
    /\ UNCHANGED <<storeVars, stage, idx, askOther, replyTokens, helpResp,
                   opinions, verified, critiques, refined, blended, task,
                   refineLocal, failedCalls, preVerify, firstDone,
                   critiqued, durKeys, lastRefine, lastBlend, loopVars>>

\* opinions[agent.name] = opinion; after the last agent the Verify stage
\* is entered.
DiscussReturn ==
    /\ stage = "discuss" /\ phase = "call"
    /\ frame[MainThread].pc = "returned"
    /\ opinions' = [opinions EXCEPT ![idx] = frame[MainThread].reply]
    /\ frame' = [frame EXCEPT ![MainThread] = IdleFrame]
    /\ acts' = Finished("discuss", idx)
    /\ durKeys' = [durKeys EXCEPT !["discuss"] = @ \cup {idx}]
    /\ helpResp' = NoText
    /\ IF LastAgent(idx)
       THEN /\ stage' = "verify" /\ phase' = "submit" /\ idx' = 0
            /\ preVerify' = messages
       ELSE /\ stage' = stage /\ phase' = "loop" /\ idx' = idx + 1
            /\ UNCHANGED preVerify
    /\ UNCHANGED <<storeVars, askOther, replyTokens, verified, critiques,
                   refined, blended, task, refineLocal, failedCalls,
                   firstDone,
                   critiqued, lastRefine, lastBlend, loopVars>>

\* ---- Step 2: Verify (one task per agent on the thread pool) ----
\* The dictionary comprehension submits the next task.
VerifySubmit ==
    /\ stage = "verify" /\ phase = "submit"
    /\ task' = [task EXCEPT ![idx] =
            [state |-> "queued", agent |-> VerifyTaskAgent(idx),
             data |-> opinions[idx], result |-> NoText]]
    /\ IF LastAgent(idx)
       THEN phase' = "collect" /\ idx' = 0
       ELSE phase' = phase /\ idx' = idx + 1
    /\ UNCHANGED <<storeVars, frame, stage, askOther, replyTokens, helpResp,
                   opinions, verified, critiques, refined, blended,
                   refineLocal, failedCalls, acts, preVerify, firstDone,
                   critiqued, durKeys, lastRefine, lastBlend, loopVars>>

\* A worker takes task i: process_agent_action(agent, 'verify', data).
TaskRun ==
    \E i \in Agents :
        /\ task[i].state = "queued"
        /\ CallBegin(i, task[i].agent, "reasoning", "verify", 0,
                     VerifyPrompt(task[i].data))
        /\ task' = [task EXCEPT ![i].state = "running"]
        /\ acts' = Started("verify", task[i].agent)
        /\ UNCHANGED <<storeVars, stage, idx, phase, askOther, replyTokens,
                       helpResp, opinions, verified, critiques, refined,
                       blended, refineLocal, failedCalls, preVerify,
                       firstDone,
                   critiqued, durKeys, lastRefine, lastBlend, loopVars>>

\* Task i returns: its future holds the result.
TaskDone ==
    \E i \in Agents :
        /\ task[i].state = "running"
        /\ frame[i].pc = "returned"
        /\ task' = [task EXCEPT ![i].state = "finished",
                                ![i].result = frame[i].reply]
        /\ frame' = [frame EXCEPT ![i] = IdleFrame]
        /\ acts' = Finished("verify", task[i].agent)
        /\ firstDone' = IF firstDone = NoAgent THEN i ELSE firstDone
        /\ UNCHANGED <<storeVars, stage, idx, phase, askOther, replyTokens,
                       helpResp, opinions, verified, critiques, refined,
                       blended, refineLocal, failedCalls, preVerify,
                   critiqued, durKeys, lastRefine, lastBlend, loopVars>>

\* `for future in futures`: future.result() of the next future, in
\* submission order; after the last one the Critique stage is entered.
VerifyCollect ==
    /\ stage = "verify" /\ phase = "collect"
    /\ FutureDone(idx)
    /\ verified' = [verified EXCEPT ![FutureAgent(idx)] = task[idx].result]
    /\ durKeys' = [durKeys EXCEPT !["verify"] = @ \cup {FutureAgent(idx)}]
    /\ task' = [task EXCEPT ![idx].state =
                    IF @ = "finished" THEN "collected" ELSE @]
    /\ IF LastAgent(idx)
       THEN stage' = "critique" /\ phase' = "loop" /\ idx' = 0
       ELSE stage' = stage /\ phase' = phase /\ idx' = idx + 1
    /\ UNCHANGED <<storeVars, frame, askOther, replyTokens, helpResp,
                   opinions, critiques, refined, blended, refineLocal,
                   failedCalls, acts, preVerify, firstDone,
                   critiqued, lastRefine, lastBlend, loopVars>>

\* ---- Step 3: Critique (sequential, a ring) ----
CritiqueBegin ==
    /\ stage = "critique" /\ phase = "loop"
    /\ CallBegin(MainThread, idx, "reasoning", "critique", 0,
                 CritiquePrompt(verified[CritiqueTarget(idx)]))
    /\ phase' = "call"
    /\ acts' = Started("critique", idx)
    /\ preVerify' = NoLogs
    /\ firstDone' = NoAgent
    /\ critiqued' = [critiqued EXCEPT ![idx] = CritiqueTarget(idx)]
    /\ UNCHANGED <<storeVars, stage, idx, askOther, replyTokens, helpResp,
                   opinions, verified, critiques, refined, blended, task,
                   refineLocal, failedCalls,
                   durKeys, lastRefine, lastBlend, loopVars>>

CritiqueReturn ==
    /\ stage = "critique" /\ phase = "call"
    /\ frame[MainThread].pc = "returned"
    /\ critiques' = [critiques EXCEPT ![idx] = frame[MainThread].reply]
    /\ frame' = [frame EXCEPT ![MainThread] = IdleFrame]
    /\ acts' = Finished("critique", idx)
    /\ durKeys' = [durKeys EXCEPT !["critique"] = @ \cup {idx}]
    /\ IF LastAgent(idx)
       THEN stage' = "refine" /\ phase' = "loop" /\ idx' = 0
       ELSE stage' = stage /\ phase' = "loop" /\ idx' = idx + 1
    /\ UNCHANGED <<storeVars, askOther, replyTokens, helpResp, opinions,
                   verified, refined, blended, task, refineLocal,
                   failedCalls, preVerify, firstDone,
                   critiqued, lastRefine, lastBlend, loopVars>>

\* ---- Agent.refine: its locals ----
\* total_duration = 0; refined_response = data; the first request is built
\* from data, with the more-time directive when more_time is set.
RefineEntry(data, moreTime, k) ==
    [iter |-> 0, response |-> data, k |-> k, data |-> data,
     moreTime |-> moreTime, total |-> 0, outs |-> << >>, durs |-> << >>]

\* `for _ in range(iterations)`: another iteration follows the current one.
AnotherIteration(r) == r.iter + 1 < r.k

\* refined_response, duration = self._handle_reasoning_logic(...);
\* total_duration += duration
RefineStep(r, reply, duration) ==
    [r EXCEPT !.iter = @ + 1, !.response = reply, !.total = @ + duration,
              !.outs = Append(@, reply), !.durs = Append(@, duration)]

\* Mutant of NextRefinePrompt: every iteration refines the original data.
NextRefinePromptFromData(r) == FurtherRefinePrompt(r.data)

\* refinement_prompt = f"Please further refine the following response:
\* \n\n{refined_response}", after the iteration stored its output.
NextRefinePrompt(r) == FurtherRefinePrompt(r.response)

\* What a refine action was called with and how many completion calls it
\* made, taken when its last iteration returns.
RefineCallOf(r) ==
    [data |-> r.data, moreTime |-> r.moreTime, k |-> r.k,
     rounds |-> r.iter + 1]

\* ---- Step 4: Refine (sequential; Agent.refine runs its iterations) ----
\* Mutant of RefineInput: the verified text is refined.
RefineInputVerified(i) == verified[i]

\* The data argument of the Refine stage: opinions[agent.name].
RefineInput(i) == opinions[i]

\* process_agent_action(agent, 'refine', opinions[agent.name]): the first
\* iteration of Agent.refine.
RefineBegin ==
    /\ stage = "refine" /\ phase = "loop"
    /\ CallBegin(MainThread, idx, "reasoning", "refine", 0,
                 RefinePrompt(RefineInput(idx), FALSE))
    /\ refineLocal' = RefineEntry(RefineInput(idx), FALSE, REFINE_ITERATIONS)
    /\ phase' = "call"
    /\ acts' = Started("refine", idx)
    /\ UNCHANGED <<storeVars, stage, idx, askOther, replyTokens, helpResp,
                   opinions, verified, critiques, refined, blended, task,
                   failedCalls, preVerify, firstDone,
                   critiqued, durKeys, lastRefine, lastBlend, loopVars>>

\* An iteration returns and another follows: its output is the next input.
RefineNext ==
    /\ refineLocal.k > 0 /\ phase = "call"
    /\ frame[MainThread].pc = "returned"
    /\ AnotherIteration(refineLocal)
    /\ refineLocal' = RefineStep(refineLocal, frame[MainThread].reply,
                                 frame[MainThread].duration)
    /\ frame' = [frame EXCEPT ![MainThread] =
            BeginFrame(frame[MainThread].agent, "refine",
                       frame[MainThread].n + 1,
                       NextRefinePrompt(refineLocal'))]
    /\ UNCHANGED <<storeVars, stage, idx, phase, askOther, replyTokens,
                   helpResp, opinions, verified, critiques, refined, blended,
                   task, failedCalls, acts, preVerify, firstDone,
                   critiqued, durKeys, lastRefine, lastBlend, loopVars>>

\* The last iteration returns: refined_opinions[agent.name] is set; after
\* the last agent the Blend stage is entered.
RefineReturn ==
    /\ stage = "refine" /\ phase = "call"
    /\ frame[MainThread].pc = "returned"
    /\ ~AnotherIteration(refineLocal)
    /\ refined' = [refined EXCEPT ![idx] =
            RefineStep(refineLocal, frame[MainThread].reply,
                       frame[MainThread].duration).response]
    /\ refineLocal' = NoRefine
    /\ frame' = [frame EXCEPT ![MainThread] = IdleFrame]
    /\ acts' = Finished("refine", idx)
    /\ durKeys' = [durKeys EXCEPT !["refine"] = @ \cup {idx}]
    /\ lastRefine' = [lastRefine EXCEPT ![idx] = RefineCallOf(refineLocal)]
    /\ IF LastAgent(idx)
       THEN stage' = "blend" /\ phase' = "loop" /\ idx' = 0
       ELSE stage' = stage /\ phase' = "loop" /\ idx' = idx + 1
    /\ UNCHANGED <<storeVars, askOther, replyTokens, helpResp, opinions,
                   verified, critiques, blended, task, failedCalls,
                   preVerify, firstDone,
                   critiqued, lastBlend, loopVars>>

\* ---- Step 5: Blend (one request, no retry, no agent) ----
\* agent_responses = [(agent.name, refined_opinions[agent.name]) ...]
AgentResponses ==
    [i \in 1 .. NumAgents |-> [name |-> i - 1, response |-> refined[i - 1]]]

\* Mutant of BlendQuestion: the extended prompt is passed.
BlendQuestionExtended == extended

\* The user_prompt argument of blend_responses.
BlendQuestion == UserPrompt

\* blend_responses(agent_responses, user_prompt): the combined prompt is
\* built and one request is made, inside a single try.
BlendCall ==
    [question |-> BlendQuestion, responses |-> AgentResponses,
     requests |-> lastBlend.requests + 1, logs |-> messages,
     failed |-> FALSE]

BlendOk ==
    /\ stage = "blend"
    /\ blended' = ReplyText(NoAgent, "blend", 0, replyTokens)
    /\ lastBlend' = BlendCall
    /\ refine_count' = 0
    /\ more_time' = FALSE
    /\ asked' = << >>
    /\ user_feedback' = "none"
    /\ stage' = "done"
    /\ UNCHANGED <<sideVars, storeVars, frame, idx, phase, askOther, replyTokens,
                   helpResp, opinions, verified, critiques, refined, task,
                   refineLocal, failedCalls, acts, preVerify, firstDone,
                   critiqued, durKeys, lastRefine, extended, history, allowed>>

BlendFails ==
    /\ stage = "blend"
    /\ failedCalls < allowed
    /\ blended' = BLEND_SENTINEL
    /\ failedCalls' = failedCalls + 1
    /\ lastBlend' = [BlendCall EXCEPT !.failed = TRUE]
    /\ refine_count' = 0
    /\ more_time' = FALSE
    /\ asked' = << >>
    /\ user_feedback' = "none"
    /\ stage' = "done"
    /\ UNCHANGED <<sideVars, storeVars, frame, idx, phase, askOther, replyTokens,
                   helpResp, opinions, verified, critiques, refined, task,
                   refineLocal, acts, preVerify, firstDone,
                   critiqued, durKeys, lastRefine, extended, history, allowed>>

NextRound ==
    \/ StartRound
    \/ RoundAttemptFails \/ RoundSucceeds \/ RoundWake
    \/ DiscussAsk \/ DiscussHelped \/ DiscussBegin \/ DiscussReturn
    \/ VerifySubmit \/ TaskRun \/ TaskDone \/ VerifyCollect
    \/ CritiqueBegin \/ CritiqueReturn
    \/ RefineBegin \/ RefineNext \/ RefineReturn
    \/ BlendOk \/ BlendFails

SpecRound == InitAgents /\ [][NextRound]_vars

\* Every thread keeps running: a started request returns or fails, a sleep
\* ends, and the loops of reasoning_logic go on.
FairRound == SpecRound /\ WF_vars(NextRound)

\* ------------------------------------------------------------------------
\* The session: the round followed by the feedback loop, the question
\* about retaining the context and the record appended to the history.
\* ------------------------------------------------------------------------
\* Most calls of one session that the model lets end with a sentinel.
MaxSessionFailures == 1

\* A prompt is read while the history file may hold matching records of
\* earlier runs: local context is retrieved or not.
StartSession ==
    /\ stage = "idle"
    /\ \E ask \in BOOLEAN, tokens \in RoundSizes, context \in BOOLEAN :
        /\ askOther' = ask
        /\ replyTokens' = tokens
        /\ extended' = IF context THEN ExtendedPrompt ELSE UserPrompt
    /\ allowed' = MaxSessionFailures
    /\ EnterRound

\* The record save_reasoning_session builds (the timestamp left out).
Record(prompt, response, feedback, retained) ==
    [user_prompt |-> prompt, final_response |-> response,
     user_feedback |-> feedback, context_retained |-> retained]

\* Mutant of FinalRecord: the prompt as it was sent to the agents is saved.
FinalRecordExtended(keep) == Record(extended, blended, user_feedback, keep)

\* save_reasoning_session(user_prompt, optimal_response, user_feedback,
\* context_retained) after the feedback loop.
FinalRecord(keep) == Record(UserPrompt, blended, user_feedback, keep)

\* Mutant of LoopContinues: one more attempt is allowed.
LoopContinuesOnceMore == refine_count <= MAX_REFINEMENT_ATTEMPTS

\* while refine_count < MAX_REFINEMENT_ATTEMPTS
LoopContinues == refine_count < MAX_REFINEMENT_ATTEMPTS

\* Mutant of AsksMoreTime: the question is put after the third 'no' only.
AsksMoreTimeLate(count) == count >= 3

\* if refine_count >= 2: the more-time question is put.
AsksMoreTime(count) == count >= 2

\* The refine requests of an agent are numbered through the round: the
\* Refine stage makes the requests 0 and 1, the p-th re-refinement the
\* requests 2p and 2p + 1.
FirstCallOfPass(p) == REFINE_ITERATIONS * p

\* Mutant of LoopRefineInput: the original opinion is refined again.
LoopRefineInputOpinion(i) == opinions[i]

\* The data argument of a re-refinement: refined_opinions[agent.name].
LoopRefineInput(i) == refined[i]

\* The answer is 'yes': the loop is left.
FeedbackYes ==
    /\ stage = "done"
    /\ user_feedback' = "yes"
    /\ stage' = "retain"
    /\ UNCHANGED <<sideVars, storeVars, frame, idx, phase, askOther, replyTokens,
                   helpResp, opinions, verified, critiques, refined, blended,
                   task, refineLocal, failedCalls, acts, preVerify,
                   firstDone, critiqued, durKeys, lastRefine, lastBlend,
                   extended, refine_count, more_time, asked, history,
                   allowed>>

\* Mutant of CountAfterOther: the answer is counted as an attempt.
CountAfterOtherCounted(count) == count + 1

\* `continue` is reached before `refine_count += 1`: the counter an answer
\* other than yes, no, menu, exit leaves.
CountAfterOther(count) == count

\* The answer is none of yes, no, menu, exit: the question is put again.
FeedbackOther ==
    /\ stage = "done"
    /\ user_feedback' = "other"
    /\ refine_count' = CountAfterOther(refine_count)
    /\ UNCHANGED <<sideVars, storeVars, frame, stage, idx, phase, askOther,
                   replyTokens, helpResp, opinions, verified, critiques,
                   refined, blended, task, refineLocal, failedCalls, acts,
                   preVerify, firstDone, critiqued, durKeys, lastRefine,
                   lastBlend, extended, more_time, asked, history, allowed>>

\* Mutant of AbandonedRecord: the context is recorded as retained.
AbandonedRecordRetained(cmd) == Record(UserPrompt, blended, cmd, TRUE)

\* save_reasoning_session(user_prompt, optimal_response, user_feedback,
\* context_retained=False)
AbandonedRecord(cmd) == Record(UserPrompt, blended, cmd, FALSE)

\* The answer is 'menu' or 'exit': the record is saved and reasoning_logic
\* is left.
FeedbackLeave ==
    /\ stage = "done"
    /\ \E cmd \in {"menu", "exit"} :
        /\ user_feedback' = cmd
        /\ history' = Append(history, AbandonedRecord(cmd))
    /\ stage' = "left"
    /\ UNCHANGED <<sideVars, storeVars, frame, idx, phase, askOther, replyTokens,
                   helpResp, opinions, verified, critiques, refined, blended,
                   task, refineLocal, failedCalls, acts, preVerify,
                   firstDone, critiqued, durKeys, lastRefine, lastBlend,
                   extended, refine_count, more_time, asked, allowed>>

\* The answer is 'no': the counter is incremented, from the second 'no' on
\* the more-time question is put, and the agents refine again.
FeedbackNo ==
    /\ stage = "done"
    /\ user_feedback' = "no"
    /\ refine_count' = refine_count + 1
    /\ IF AsksMoreTime(refine_count + 1)
       THEN \E answer \in BOOLEAN :
                /\ more_time' = answer
                /\ asked' = Append(asked, answer)
       ELSE more_time' = more_time /\ asked' = asked
    /\ stage' = "rerefine" /\ idx' = 0 /\ phase' = "loop"
    /\ UNCHANGED <<sideVars, storeVars, frame, askOther, replyTokens, helpResp,
                   opinions, verified, critiques, refined, blended, task,
                   refineLocal, failedCalls, acts, preVerify, firstDone,
                   critiqued, durKeys, lastRefine, lastBlend, extended,
                   history, allowed>>

\* process_agent_action(agent, 'refine', refined_opinions[agent.name],
\* more_time=more_time): the first iteration of Agent.refine.
ReRefineBegin ==
    /\ stage = "rerefine" /\ phase = "loop"
    /\ CallBegin(MainThread, idx, "reasoning", "refine",
                 FirstCallOfPass(refine_count),
                 RefinePrompt(LoopRefineInput(idx), more_time))
    /\ refineLocal' = RefineEntry(LoopRefineInput(idx), more_time,
                                  REFINE_ITERATIONS)
    /\ phase' = "call"
    /\ acts' = Started("refine", idx)
    /\ UNCHANGED <<storeVars, stage, idx, askOther, replyTokens, helpResp,
                   opinions, verified, critiques, refined, blended, task,
                   failedCalls, preVerify, firstDone, critiqued, durKeys,
                   lastRefine, lastBlend, loopVars>>

\* The last iteration returns: refined_opinions[agent.name] is replaced
\* and the duration added to the agent's total; after the last agent the
\* responses are blended again.
ReRefineReturn ==
    /\ stage = "rerefine" /\ phase = "call"
    /\ frame[MainThread].pc = "returned"
    /\ ~AnotherIteration(refineLocal)
    /\ refined' = [refined EXCEPT ![idx] =
            RefineStep(refineLocal, frame[MainThread].reply,
                       frame[MainThread].duration).response]
    /\ refineLocal' = NoRefine
    /\ frame' = [frame EXCEPT ![MainThread] = IdleFrame]
    /\ acts' = Finished("refine", idx)
    /\ durKeys' = [durKeys EXCEPT !["refine"] = @ \cup {idx}]
    /\ lastRefine' = [lastRefine EXCEPT ![idx] = RefineCallOf(refineLocal)]
    /\ IF LastAgent(idx)
       THEN stage' = "reblend" /\ phase' = "loop" /\ idx' = 0
       ELSE stage' = stage /\ phase' = "loop" /\ idx' = idx + 1
    /\ UNCHANGED <<storeVars, askOther, replyTokens, helpResp, opinions,
                   verified, critiques, blended, task, failedCalls,
                   preVerify, firstDone, critiqued, lastBlend, loopVars>>

\* Where the loop goes after a re-blend: to the feedback question, or,
\* when the attempts are used up, past the loop.
AfterReBlend == IF LoopContinues THEN "done" ELSE "retain"

\* optimal_response = blend_responses(agent_responses, user_prompt)
ReBlendOk ==
    /\ stage = "reblend"
    /\ blended' = ReplyText(NoAgent, "blend", refine_count, replyTokens)
    /\ lastBlend' = BlendCall
    /\ stage' = AfterReBlend
    /\ UNCHANGED <<storeVars, frame, idx, phase, askOther, replyTokens,
                   helpResp, opinions, verified, critiques, refined, task,
                   refineLocal, failedCalls, acts, preVerify, firstDone,
                   critiqued, durKeys, lastRefine, loopVars>>

ReBlendFails ==
    /\ stage = "reblend"
    /\ failedCalls < allowed
    /\ blended' = BLEND_SENTINEL
    /\ failedCalls' = failedCalls + 1
    /\ lastBlend' = [BlendCall EXCEPT !.failed = TRUE]
    /\ stage' = AfterReBlend
    /\ UNCHANGED <<storeVars, frame, idx, phase, askOther, replyTokens,
                   helpResp, opinions, verified, critiques, refined, task,
                   refineLocal, acts, preVerify, firstDone, critiqued,
                   durKeys, lastRefine, loopVars>>

\* The question about the context is answered; without 'yes' every agent's
\* reasoning log is cleared; the record is saved.
Retain ==
    /\ stage = "retain"
    /\ \E keep \in BOOLEAN :
        /\ messages' = IF keep THEN messages ELSE NoLogs
        /\ lastAppend' = IF keep THEN lastAppend
                         ELSE [a \in Agents |->
                                [lastAppend[a] EXCEPT
                                    !["reasoning"] = NoAppend]]
        /\ history' = Append(history, FinalRecord(keep))
    /\ stage' = "saved"
    /\ UNCHANGED <<sideVars, chat_history, frame, idx, phase, askOther, replyTokens,
                   helpResp, opinions, verified, critiques, refined, blended,
                   task, refineLocal, failedCalls, acts, preVerify,
                   firstDone, critiqued, durKeys, lastRefine, lastBlend,
                   extended, refine_count, more_time, asked,
                   user_feedback,
                   allowed>>

NextSession ==
    \/ StartSession
    \/ RoundAttemptFails \/ RoundSucceeds \/ RoundWake
    \/ DiscussAsk \/ DiscussHelped \/ DiscussBegin \/ DiscussReturn
    \/ VerifySubmit \/ TaskRun \/ TaskDone \/ VerifyCollect
    \/ CritiqueBegin \/ CritiqueReturn
    \/ RefineBegin \/ RefineNext \/ RefineReturn
    \/ BlendOk \/ BlendFails
    \/ FeedbackYes \/ FeedbackOther \/ FeedbackLeave \/ FeedbackNo
    \/ ReRefineBegin \/ ReRefineReturn \/ ReBlendOk \/ ReBlendFails
    \/ Retain

SpecSession == InitAgents /\ [][NextSession]_vars

\* ------------------------------------------------------------------------
\* Agent.refine on its own: one agent refines a text for k iterations, with
\* or without the more-time directive, against a service that may fail any
\* attempt.  The locals are kept after the return, for inspection.
\* ------------------------------------------------------------------------
\* Largest iterations argument the harness passes.
MaxIterations == 3

\* The texts the harness hands to refine: a prompt, or a failed opinion.
RefineData == {UserPrompt, SENTINEL}

\* agent.refine(data, more_time, iterations) is called on fresh agents.
RefineStart ==
    /\ stage = "idle" /\ phase = "loop"
    /\ messages = NoLogs
    /\ \E a \in Agents, data \in RefineData, mt \in BOOLEAN,
          k \in 1 .. MaxIterations, tokens \in RoundSizes :
        /\ CallBegin(MainThread, a, "reasoning", "refine", 0,
                     RefinePrompt(data, mt))
        /\ refineLocal' = RefineEntry(data, mt, k)
        /\ replyTokens' = tokens
        /\ allowed' = k
    /\ phase' = "call"
    /\ failedCalls' = 0
    /\ UNCHANGED <<sideVars, storeVars, stage, idx, askOther, helpResp, opinions,
                   verified, critiques, refined, blended, task, acts,
                   preVerify, firstDone, critiqued, durKeys, lastRefine,
                   lastBlend, extended, refine_count, more_time, asked,
                   user_feedback, history>>

\* return refined_response, total_duration
RefineFinish ==
    /\ stage = "idle" /\ phase = "call"
    /\ frame[MainThread].pc = "returned"
    /\ ~AnotherIteration(refineLocal)
    /\ refineLocal' = RefineStep(refineLocal, frame[MainThread].reply,
                                 frame[MainThread].duration)
    /\ refined' = [refined EXCEPT ![frame[MainThread].agent] =
                        refineLocal'.response]
    /\ lastRefine' = [lastRefine EXCEPT ![frame[MainThread].agent] =
                        RefineCallOf(refineLocal)]
    /\ frame' = [frame EXCEPT ![MainThread] = IdleFrame]
    /\ phase' = "result"
    /\ UNCHANGED <<storeVars, stage, idx, askOther, replyTokens, helpResp,
                   opinions, verified, critiques, blended, task,
                   failedCalls, acts, preVerify, firstDone, critiqued,
                   durKeys, lastBlend, loopVars>>

\* The agents are built anew for the next call.
RefineReset ==
    /\ stage = "idle" /\ phase = "result"
    /\ ClearAll
    /\ phase' = "loop"
    /\ refineLocal' = NoRefine
    /\ refined' = NoTexts
    /\ lastRefine' = NoRefineCalls
    /\ failedCalls' = 0
    /\ allowed' = 0
    /\ replyTokens' = 1
    /\ UNCHANGED <<sideVars, frame, stage, idx, askOther, helpResp, opinions,
                   verified, critiques, blended, task, acts, preVerify,
                   firstDone, critiqued, durKeys, lastBlend, extended,
                   refine_count, more_time, asked, user_feedback,
                   history>>

NextRefine ==
    \/ RefineStart \/ RefineNext \/ RefineFinish \/ RefineReset
    \/ RoundAttemptFails \/ RoundSucceeds \/ RoundWake

SpecRefine == InitAgents /\ [][NextRefine]_vars

\* ------------------------------------------------------------------------
\* The feedback loop with its durations: Steps 4 and 5 and the loop, in a
\* round without failures.  process_agent_action(agent, 'refine', ...) is
\* one step here: its two replies are stored and it returns (text,
\* duration).
\* ------------------------------------------------------------------------
\* The durations, in seconds, that a refine action returns.
Durations == {1, 3}

\* Mutant of Accumulate: the total is replaced by the new duration.
AccumulateReset(total, duration) == duration

\* refine_durations[agent.name] += duration
Accumulate(total, duration) == total + duration

\* An agent's reasoning log when Step 3 has ended: the replies to its
\* discuss, verify and critique requests.
LogAfterCritique(a) ==
    << Message("assistant", ReplyText(a, "discuss", 0, 1)),
       Message("assistant", ReplyText(a, "verify", 0, 1)),
       Message("assistant", ReplyText(a, "critique", 0, 1)) >>

\* Agent.refine with two iterations that succeed: both replies are stored.
LogAfterRefine(log, a, p) ==
    AddMessage(AddMessage(log, "assistant",
                          ReplyText(a, "refine", FirstCallOfPass(p), 1),
                          "reasoning"),
               "assistant",
               ReplyText(a, "refine", FirstCallOfPass(p) + 1, 1),
               "reasoning")

\* The state in which Step 3 leaves a round of one-token replies without
\* ask-other: Step 4 creates its two dictionaries.
TimedStart ==
    /\ stage = "idle" /\ phase = "loop"
    /\ messages = NoLogs
    /\ stage' = "timed-refine" /\ idx' = 0
    /\ messages' = [a \in Agents |-> LogAfterCritique(a)]
    /\ lastAppend' = [a \in Agents |->
            [lastAppend[a] EXCEPT !["reasoning"] =
                [before |-> SubSeq(LogAfterCritique(a), 1, 2),
                 msg |-> LogAfterCritique(a)[3]]]]
    /\ opinions' = [a \in Agents |-> ReplyText(a, "discuss", 0, 1)]
    /\ verified' = [a \in Agents |-> ReplyText(a, "verify", 0, 1)]
    /\ critiques' = [a \in Agents |-> ReplyText(a, "critique", 0, 1)]
    /\ refined' = NoTexts
    /\ refine_durations' = NoDurations
    /\ refineLog' = NoDurationLog
    /\ extended' = UserPrompt
    /\ UNCHANGED <<fileVars, configVars, promptVars, swarm, chat_history, frame, phase, askOther, replyTokens,
                   helpResp, blended, task, refineLocal, failedCalls, acts,
                   preVerify, firstDone, critiqued, durKeys, lastRefine,
                   lastBlend, refine_count, more_time, asked, user_feedback,
                   history, allowed>>

\* What a refine action of agent a in pass p does to the agent.
TimedAction(a, p) ==
    /\ messages' = [messages EXCEPT ![a] = LogAfterRefine(@, a, p)]
    /\ lastAppend' = [lastAppend EXCEPT ![a]["reasoning"] =
            [before |-> SubSeq(messages'[a], 1, Len(messages'[a]) - 1),
             msg |-> messages'[a][Len(messages'[a])]]]
    /\ refined' = [refined EXCEPT ![a] =
            ReplyText(a, "refine", FirstCallOfPass(p) + 1, 1)]

\* Step 4, one agent: refined_opinions[agent.name] = refined_opinion;
\* refine_durations[agent.name] = duration
TimedRefine ==
    /\ stage = "timed-refine"
    /\ TimedAction(idx, 0)
    /\ \E duration \in Durations :
        /\ refine_durations' =
                [a \in DOMAIN refine_durations \cup {idx} |->
                    IF a = idx THEN duration ELSE refine_durations[a]]
        /\ refineLog' = [refineLog EXCEPT ![idx] = Append(@, duration)]
    /\ IF LastAgent(idx)
       THEN stage' = "timed-blend" /\ idx' = 0
       ELSE stage' = stage /\ idx' = idx + 1
    /\ UNCHANGED <<fileVars, configVars, promptVars, swarm, chat_history, frame, phase, askOther, replyTokens,
                   helpResp, opinions, verified, critiques, blended, task,
                   refineLocal, failedCalls, acts, preVerify, firstDone,
                   critiqued, durKeys, lastRefine, lastBlend, extended,
                   refine_count, more_time, asked, user_feedback, history,
                   allowed>>

\* Step 5 and the re-blend of the loop; the loop condition is tested.
TimedBlend ==
    /\ stage = "timed-blend"
    /\ blended' = ReplyText(NoAgent, "blend", refine_count, 1)
    /\ stage' = IF LoopContinues THEN "timed-done" ELSE "timed-end"
    /\ UNCHANGED <<storeVars, frame, idx, phase, askOther, replyTokens,
                   helpResp, opinions, verified, critiques, refined, task,
                   refineLocal, failedCalls, acts, preVerify, firstDone,
                   critiqued, durKeys, lastRefine, lastBlend, loopVars>>

\* The answer is 'yes'.
TimedYes ==
    /\ stage = "timed-done"
    /\ user_feedback' = "yes"
    /\ stage' = "timed-end"
    /\ UNCHANGED <<storeVars, frame, idx, phase, askOther, replyTokens,
                   helpResp, opinions, verified, critiques, refined, blended,
                   task, refineLocal, failedCalls, acts, preVerify,
                   firstDone, critiqued, durKeys, lastRefine, lastBlend,
                   extended, refine_count, more_time, asked, history,
                   allowed, sideVars>>

\* The answer is 'no'.
TimedNo ==
    /\ stage = "timed-done"
    /\ user_feedback' = "no"
    /\ refine_count' = refine_count + 1
    /\ IF AsksMoreTime(refine_count + 1)
       THEN \E answer \in BOOLEAN :
                /\ more_time' = answer
                /\ asked' = Append(asked, answer)
       ELSE more_time' = more_time /\ asked' = asked
    /\ stage' = "timed-rerefine" /\ idx' = 0
    /\ UNCHANGED <<storeVars, frame, phase, askOther, replyTokens, helpResp,
                   opinions, verified, critiques, refined, blended, task,
                   refineLocal, failedCalls, acts, preVerify, firstDone,
                   critiqued, durKeys, lastRefine, lastBlend, extended,
                   history, allowed, sideVars>>

\* The loop, one agent: refined_opinions[agent.name] = refined_opinion;
\* refine_durations[agent.name] += duration
TimedReRefine ==
    /\ stage = "timed-rerefine"
    /\ idx \in DOMAIN refine_durations
    /\ TimedAction(idx, refine_count)
    /\ \E duration \in Durations :
        /\ refine_durations' = [refine_durations EXCEPT ![idx] =
                Accumulate(@, duration)]
        /\ refineLog' = [refineLog EXCEPT ![idx] = Append(@, duration)]
    /\ IF LastAgent(idx)
       THEN stage' = "timed-blend" /\ idx' = 0
       ELSE stage' = stage /\ idx' = idx + 1
    /\ UNCHANGED <<fileVars, configVars, promptVars, swarm, chat_history, frame, phase, askOther, replyTokens,
                   helpResp, opinions, verified, critiques, blended, task,
                   refineLocal, failedCalls, acts, preVerify, firstDone,
                   critiqued, durKeys, lastRefine, lastBlend, extended,
                   refine_count, more_time, asked, user_feedback, history,
                   allowed>>

NextTimed ==
    \/ TimedStart \/ TimedRefine \/ TimedBlend \/ TimedYes \/ TimedNo
    \/ TimedReRefine

SpecTimed == InitAgents /\ [][NextTimed]_vars

\* ------------------------------------------------------------------------
\* The history files on their own: records are appended and context is
\* retrieved, whatever the files held when the program found them.
\* ------------------------------------------------------------------------
\* Most records the harness stores in the two files together.
MaxStored == 2
\* The seconds of the harness's clock.
Seconds == {0, 1}
\* The max_records arguments the harness passes.
RetrieveSizes == {1, 2}

\* Texts are sequences of characters here, so that the search can be
\* modelled as the substring test it is.
LowerChar(c) ==
    CASE c = "A" -> "a" [] c = "B" -> "b" [] c = "C" -> "c" [] c = "M" -> "m"
      [] OTHER -> c
\* str.lower()
Lower(text) == [i \in 1 .. Len(text) |-> LowerChar(text[i])]
\* A character that \w matches.
IsWordChar(c) == c \in {"a", "b", "c", "d", "A", "B"}

\* Length of the longest prefix of text made of word characters.
RECURSIVE WordRun(_)
WordRun(text) ==
    IF text = << >> \/ ~IsWordChar(Head(text)) THEN 0
    ELSE 1 + WordRun(Tail(text))

\* re.findall(r"\w+", text): the maximal runs of word characters, in order.
RECURSIVE FindWords(_)
FindWords(text) ==
    IF text = << >> THEN << >>
    ELSE IF WordRun(text) = 0 THEN FindWords(Tail(text))
    ELSE << SubSeq(text, 1, WordRun(text)) >>
         \o FindWords(SubSeq(text, WordRun(text) + 1, Len(text)))

\* needle in hay (Python's substring test)
Contains(hay, needle) ==
    \E i \in 1 .. (Len(hay) - Len(needle) + 1) :
        SubSeq(hay, i, i + Len(needle) - 1) = needle

\* time.strftime("%Y-%m-%d %H:%M:%S", time.localtime()) at second t
Strftime(t) == << "t", <<"0", "1", "2", "3", "4">>[t + 1] >>

\* The sessions the harness saves: prompt, final response, feedback and
\* whether the context was retained.
Sample(prompt, response, feedback, retained) ==
    [prompt |-> prompt, response |-> response, feedback |-> feedback,
     retained |-> retained]
Samples ==
    { Sample(<<"a", "b", " ", "c", "d">>, <<"A", ".">>, "yes", TRUE),
      Sample(<<"?", "?", "?", "?", "?">>, <<"b", "A">>, "no", FALSE),
      Sample(<<"c", "d", " ", "c", "d">>, <<"?", "?">>, "menu", FALSE) }

\* The prompts for which the harness retrieves context.
Queries ==
    { <<"A", "B", " ", "c", "d", "?">>,
      <<"?", "?", "?", "?", "?">>,
      <<"a", " ", "a", " ", "a">>,
      <<"b", "b", " ", "b", "b">>,
      <<"b", "a", " ", "b", "a">> }

\* The record save_reasoning_session and save_swarm_session build.
SessionRecord(sample, t) ==
    [timestamp |-> Strftime(t), user_prompt |-> sample.prompt,
     final_response |-> sample.response, user_feedback |-> sample.feedback,
     context_retained |-> sample.retained]

\* json.dump and json.load of one record: strings become JSON strings,
\* booleans the literals true and false, and back.
JsonString(text) == [json |-> "string", chars |-> text]
JsonBool(b) == [json |-> IF b THEN "true" ELSE "false", chars |-> << >>]
Dump(record) ==
    [timestamp |-> JsonString(record.timestamp),
     user_prompt |-> JsonString(record.user_prompt),
     final_response |-> JsonString(record.final_response),
     user_feedback |-> [json |-> "string", chars |-> << record.user_feedback >>],
     context_retained |-> JsonBool(record.context_retained)]
Load(object) ==
    [timestamp |-> object.timestamp.chars,
     user_prompt |-> object.user_prompt.chars,
     final_response |-> object.final_response.chars,
     user_feedback |-> object.user_feedback.chars[1],
     context_retained |-> object.context_retained.json = "true"]
DumpAll(data) == [i \in 1 .. Len(data) |-> Dump(data[i])]
LoadAll(items) == [i \in 1 .. Len(items) |-> Load(items[i])]

\* open(file_path, 'r', encoding='utf-8') and json.load(f): the exception
\* raised, if any.
ReadError(file) ==
    CASE file.kind = "absent" -> "FileNotFoundError"
      [] file.kind = "undecodable" -> "UnicodeDecodeError"
      [] file.kind = "invalid" -> "JSONDecodeError"
      [] OTHER -> "none"

\* except (json.JSONDecodeError, FileNotFoundError)
Caught(error) == error \in {"JSONDecodeError", "FileNotFoundError"}

\* The list both readers go on with when nothing is raised: the records of
\* a JSON list, nothing for any other value or a caught exception.
ReadData(file) ==
    IF ReadError(file) = "none" /\ file.kind = "list"
    THEN LoadAll(file.items)
    ELSE << >>

\* The channel a caller means: append_swarm_history and is_swarm=True are
\* the swarm channel.
ChannelOf(is_swarm) == IF is_swarm THEN "swarm" ELSE "reasoning"

\* Mutant of HistoryFile: both channels use the reasoning file.
HistoryFileShared(is_swarm) == "reasoning"

\* REASONING_HISTORY_FILE or SWARM_HISTORY_FILE
HistoryFile(is_swarm) == IF is_swarm THEN "swarm" ELSE "reasoning"

\* Mutant of WithRecord: the record is put first.
WithRecordFirst(data, record) == << record >> \o data

\* data.append(record)
WithRecord(data, record) == Append(data, record)

\* ---- append_session_record, run by instance w ----
Stored == Len(files["reasoning"].items) + Len(files["swarm"].items)
Appending == {w \in Instances : writer[w].pc \in {"read", "write"}}

\* save_*_session builds the record; if the file does not exist it is
\* created holding an empty list.
AppendBegin(w) ==
    /\ writer[w].pc = "idle"
    /\ Stored + Cardinality(Appending) < MaxStored
    /\ \E is_swarm \in BOOLEAN, sample \in Samples :
        /\ writer' = [writer EXCEPT ![w] =
                [pc |-> "read", channel |-> ChannelOf(is_swarm),
                 path |-> HistoryFile(is_swarm),
                 record |-> SessionRecord(sample, clock), data |-> << >>]]
        /\ files' = [files EXCEPT ![HistoryFile(is_swarm)] =
                IF @.kind = "absent" THEN [kind |-> "list", items |-> << >>]
                ELSE @]
    /\ UNCHANGED <<found, clock, saved>>

\* The file is read and parsed; an exception the except clause does not
\* name leaves append_session_record.
AppendRead(w) ==
    /\ writer[w].pc = "read"
    /\ LET file == files[writer[w].path]
       IN writer' = [writer EXCEPT ![w] =
            IF ReadError(file) # "none" /\ ~Caught(ReadError(file))
            THEN [@ EXCEPT !.pc = "raised"]
            ELSE [@ EXCEPT !.pc = "write", !.data = ReadData(file)]]
    /\ UNCHANGED <<files, found, clock, saved>>

\* data.append(record); the file is written anew with the whole list.
AppendWrite(w) ==
    /\ writer[w].pc = "write"
    /\ files' = [files EXCEPT ![writer[w].path] =
            [kind |-> "list",
             items |-> DumpAll(WithRecord(writer[w].data,
                                          writer[w].record))]]
    /\ saved' = [saved EXCEPT ![writer[w].channel] =
            Append(@, writer[w].record)]
    /\ writer' = [writer EXCEPT ![w] = [@ EXCEPT !.pc = "idle"]]
    /\ UNCHANGED <<found, clock>>

\* ---- load_reasoning_history_for_context / load_swarm_history_for_context
\* Mutant of ScanStops: one more record is let through.
ScanStopsLate(count, max_records) == count > max_records

\* if count >= max_records: break
ScanStops(count, max_records) == count >= max_records

\* combined_text = (entry.get("user_prompt", "") + " " +
\*                  entry.get("final_response", "")).lower()
CombinedText(entry) ==
    Lower(entry.user_prompt \o << " " >> \o entry.final_response)

\* any(kw.lower() in combined_text for kw in search_keywords)
AnyKeyword(entry, search_keywords) ==
    \E k \in 1 .. Len(search_keywords) :
        Contains(CombinedText(entry), Lower(search_keywords[k]))

\* Mutant of Summary: the timestamp of the retrieval replaces the record's.
SummaryStamped(entry) ==
    << "Timestamp: ", Strftime(clock), "\nUser Prompt: ", entry.user_prompt,
       "\nFinal Response: ", entry.final_response >>

\* The summary of a record, as the pieces of the formatted string.
Summary(entry) ==
    << "Timestamp: ", entry.timestamp, "\nUser Prompt: ", entry.user_prompt,
       "\nFinal Response: ", entry.final_response >>

\* The loop over the reversed list: a falsy search_keywords (None or an
\* empty list) switches the search off.
RECURSIVE Scan(_, _, _, _)
Scan(entries, max_records, search_keywords, contexts) ==
    IF entries = << >> \/ ScanStops(Len(contexts), max_records)
    THEN contexts
    ELSE IF search_keywords # << >>
            /\ ~AnyKeyword(Head(entries), search_keywords)
         THEN Scan(Tail(entries), max_records, search_keywords, contexts)
         ELSE Scan(Tail(entries), max_records, search_keywords,
                   Append(contexts, Summary(Head(entries))))

\* data.reverse()
Reverse(data) == [i \in 1 .. Len(data) |-> data[Len(data) + 1 - i]]

\* load_*_history_for_context(max_records, search_keywords) on a file
\* whose reading raises nothing uncaught.
LoadHistory(file, max_records, search_keywords) ==
    Scan(Reverse(ReadData(file)), max_records, search_keywords, << >>)

\* ---- the history harness: one instance ----
\* What the program finds in the working directory: a file left by earlier
\* runs or by something else.
FileFound ==
    /\ \A w \in Instances : writer[w].pc = "idle"
    /\ found.state = "none"
    /\ \E ch \in Channels,
          kind \in {"undecodable", "invalid", "other", "list"} :
        /\ files[ch].kind = "absent"
        /\ saved[ch] = << >>
        /\ files' = [files EXCEPT ![ch] = FileOf(kind)]
    /\ UNCHANGED <<storeVars, frame, pipelineVars>>
    /\ UNCHANGED <<configVars, timedVars, promptVars, swarm, writer, found, clock, saved>>

ClockTick ==
    /\ found.state = "none"
    /\ clock + 1 \in Seconds
    /\ clock' = clock + 1
    /\ UNCHANGED <<storeVars, frame, pipelineVars>>
    /\ UNCHANGED <<configVars, timedVars, promptVars, swarm, files, writer, found, saved>>

SaveBegin ==
    /\ found.state = "none"
    /\ AppendBegin(1)
    /\ UNCHANGED <<storeVars, frame, pipelineVars, timedVars, configVars,
                   promptVars, swarm>>

SaveRead ==
    /\ AppendRead(1)
    /\ UNCHANGED <<storeVars, frame, pipelineVars, timedVars, configVars,
                   promptVars, swarm>>

SaveWrite ==
    /\ AppendWrite(1)
    /\ UNCHANGED <<storeVars, frame, pipelineVars, timedVars, configVars,
                   promptVars, swarm>>

\* get_local_context_for_prompt(user_prompt, is_swarm, max_records)
Retrieve ==
    /\ writer[1].pc = "idle"
    /\ found.state = "none"
    /\ \E prompt \in Queries, is_swarm \in BOOLEAN,
          max_records \in RetrieveSizes :
        LET file == files[HistoryFile(is_swarm)]
        IN found' =
            [state |-> IF ReadError(file) # "none" /\ ~Caught(ReadError(file))
                       THEN "raised" ELSE "returned",
             channel |-> ChannelOf(is_swarm),
             prompt |-> prompt, max_records |-> max_records,
             file |-> file,
             contexts |->
                IF ReadError(file) # "none" /\ ~Caught(ReadError(file))
                THEN << >>
                ELSE LoadHistory(file, max_records, FindWords(prompt))]
    /\ UNCHANGED <<storeVars, frame, pipelineVars>>
    /\ UNCHANGED <<configVars, timedVars, promptVars, swarm, files, writer, clock, saved>>

\* The caller puts the context into the prompt it sends on.
RetrieveReturn ==
    /\ found.state = "returned"
    /\ found' = NoFound
    /\ UNCHANGED <<storeVars, frame, pipelineVars>>
    /\ UNCHANGED <<configVars, timedVars, promptVars, swarm, files, writer, clock, saved>>

NextHistory ==
    \/ FileFound \/ ClockTick \/ SaveBegin \/ SaveRead \/ SaveWrite
    \/ Retrieve \/ RetrieveReturn

SpecHistory == InitAgents /\ [][NextHistory]_vars

\* ---- two instances of the program in one working directory ----
AnyBegin ==
    /\ \E w \in Instances : AppendBegin(w)
    /\ UNCHANGED <<storeVars, frame, pipelineVars, timedVars, configVars,
                   promptVars, swarm>>

AnyRead ==
    /\ \E w \in Instances : AppendRead(w)
    /\ UNCHANGED <<storeVars, frame, pipelineVars, timedVars, configVars,
                   promptVars, swarm>>

AnyWrite ==
    /\ \E w \in Instances : AppendWrite(w)
    /\ UNCHANGED <<storeVars, frame, pipelineVars, timedVars, configVars,
                   promptVars, swarm>>

NextInstances == FileFound \/ AnyBegin \/ AnyRead \/ AnyWrite

SpecInstances == InitAgents /\ [][NextInstances]_vars

\* ------------------------------------------------------------------------
\* The agent configuration: agents.json as the program finds it, and the
\* agents each pipeline initializes from it.
\* ------------------------------------------------------------------------
\* Most agents the harness lists in agents.json.
MaxConfigured == 3

\* The names of the agents a configuration may list.
ConfigNames == {"Agent 47", "Agent 74", "Swarm Agent"}

RECURSIVE ListsOf(_)
ListsOf(n) ==
    IF n = 0 THEN {<< >>}
    ELSE ListsOf(n - 1)
         \cup {Append(l, name) : l \in {m \in ListsOf(n - 1) : Len(m) = n - 1},
                                 name \in ConfigNames}

\* agents.json is absent, holds bytes that are no UTF-8 text, text that is
\* no JSON, or a JSON object; items is what the object lists under
\* 'agents' (nothing when the key is missing).
Configs ==
    {FileOf("undecodable"), FileOf("invalid")}
    \cup {[kind |-> "object", items |-> l] : l \in ListsOf(MaxConfigured)}

\* agents = [agent_a, agent_b]
DefaultAgents == << "Agent 47", "Agent 74" >>

\* load_agents_config(): agents_data.get('agents', []), or [] when the file
\* is missing or no JSON; any other exception leaves the function.
ConfigRaises == ReadError(config) # "none" /\ ~Caught(ReadError(config))
LoadAgentsConfig == IF ReadError(config) = "none" THEN config.items ELSE << >>

ConfigFound ==
    /\ config = NoFile
    /\ \A p \in Pipelines : roster[p].state = "none"
    /\ config' \in Configs
    /\ UNCHANGED roster
    /\ UNCHANGED <<storeVars, frame, pipelineVars, timedVars, fileVars,
                   promptVars, swarm>>

\* main_menu calls initialize_agents(): without agents_data the two
\* default agents are built.
InitializeAgents ==
    /\ roster["reasoning"].state = "none"
    /\ roster' = [roster EXCEPT !["reasoning"] =
            IF ConfigRaises THEN [state |-> "raised", agents |-> << >>]
            ELSE [state |-> "ready",
                  agents |-> IF LoadAgentsConfig = << >> THEN DefaultAgents
                             ELSE LoadAgentsConfig]]
    /\ UNCHANGED config
    /\ UNCHANGED <<storeVars, frame, pipelineVars, timedVars, fileVars,
                   promptVars, swarm>>

\* A swarm prompt is handed to run_swarm_reasoning, which calls
\* initialize_swarm_agents(): without agents_data it logs an error and
\* calls sys.exit(1).
InitializeSwarmAgents ==
    /\ roster["reasoning"].state = "ready"
    /\ roster["swarm"].state = "none"
    /\ roster' = [roster EXCEPT !["swarm"] =
            IF ConfigRaises THEN [state |-> "raised", agents |-> << >>]
            ELSE IF LoadAgentsConfig = << >>
                 THEN [state |-> "exit", agents |-> << >>]
                 ELSE [state |-> "ready", agents |-> LoadAgentsConfig]]
    /\ UNCHANGED config
    /\ UNCHANGED <<storeVars, frame, pipelineVars, timedVars, fileVars,
                   promptVars, swarm>>

\* The swarm answered and the next swarm prompt is read.
SwarmAgain ==
    /\ roster["swarm"].state = "ready"
    /\ roster' = [roster EXCEPT !["swarm"] = NoRoster]
    /\ UNCHANGED config
    /\ UNCHANGED <<storeVars, frame, pipelineVars, timedVars, fileVars,
                   promptVars, swarm>>

NextConfig ==
    ConfigFound \/ InitializeAgents \/ InitializeSwarmAgents \/ SwarmAgain

SpecConfig == InitAgents /\ [][NextConfig]_vars

\* ------------------------------------------------------------------------
\* The prompt loop of reasoning_logic: lines are read at the prompt, the
\* commands are dispatched, and the rounds are followed action by action
\* (each process_agent_action and each blend_responses call is one step of
\* one-token replies) through the feedback loop to the saved record.
\* ------------------------------------------------------------------------
\* Most rounds the harness starts.
MaxRounds == 2

\* The lines typed at the prompt.
PromptLines ==
    { <<"M", "e", "n", "u">>,
      <<"e", "x", "i", "t", " ">>,
      <<"h", "i", "s", "t", "o", "r", "y">>,
      <<"C", "l", "e", "a", "r">>,
      <<"a", "b", "c", "d">>,
      <<" ", "a", "b", " ", " ">>,
      <<"a", "b", " ", "c", "d">> }

RECURSIVE StripLeft(_)
StripLeft(text) ==
    IF text # << >> /\ Head(text) = " " THEN StripLeft(Tail(text)) ELSE text

RECURSIVE StripRight(_)
StripRight(text) ==
    IF text # << >> /\ text[Len(text)] = " "
    THEN StripRight(SubSeq(text, 1, Len(text) - 1))
    ELSE text

\* str.strip()
Strip(text) == StripRight(StripLeft(text))

\* handle_special_commands(user_input, agents): the command handled, or
\* "none" (False is returned).
SpecialCommand(user_input) ==
    LET cmd == Lower(Strip(user_input))
    IN IF cmd = <<"e", "x", "i", "t">> THEN "exit"
       ELSE IF cmd = <<"h", "i", "s", "t", "o", "r", "y">> THEN "history"
       ELSE IF cmd = <<"c", "l", "e", "a", "r">> THEN "clear"
       ELSE "none"

\* Mutant of TooShort: a prompt of four characters is let through.
TooShortBelowFour(user_prompt) == Len(user_prompt) < 4

\* if len(user_prompt) <= 4
TooShort(user_prompt) == Len(user_prompt) <= 4

\* What reasoning_logic does with the line read at the prompt: "menu",
\* "exit", "history", "clear", "short", or "round" when a round is started.
Dispatch(line) ==
    LET user_prompt == Strip(line)
    IN IF Lower(user_prompt) = <<"m", "e", "n", "u">> THEN "menu"
       ELSE IF Lower(user_prompt) = <<"e", "x", "i", "t">> THEN "exit"
       ELSE IF SpecialCommand(user_prompt) # "none"
       THEN SpecialCommand(user_prompt)
       ELSE IF TooShort(user_prompt) THEN "short"
       ELSE "round"

\* The agent's log after its Discuss, Verify, Critique and Refine actions.
LogAfterSteps(log, a) ==
    LogAfterRefine(
        AddMessage(
            AddMessage(
                AddMessage(log, "assistant", ReplyText(a, "discuss", 0, 1),
                           "reasoning"),
                "assistant", ReplyText(a, "verify", 0, 1), "reasoning"),
            "assistant", ReplyText(a, "critique", 0, 1), "reasoning"),
        a, 0)

\* user_prompt = input().strip(), then the dispatch: menu, exit, the special
\* commands, the length test; any other line starts a round (the local
\* context is retrieved and the prompt extended).
PromptRead ==
    /\ stage = "idle"
    /\ \E line \in PromptLines :
        /\ Dispatch(line) = "round" => rounds < MaxRounds
        /\ typed' = line
        /\ stage' = CASE Dispatch(line) = "menu" -> "prompt-menu"
                      [] Dispatch(line) = "exit" -> "prompt-exit"
                      [] Dispatch(line) = "round" -> "prompt-round"
                      [] OTHER -> stage
        /\ IF Dispatch(line) = "clear"
           THEN ClearAll
           ELSE UNCHANGED storeVars
        /\ IF Dispatch(line) = "round"
           THEN \E context \in BOOLEAN :
                    extended' = IF context THEN ExtendedPrompt ELSE UserPrompt
           ELSE extended' = extended
    /\ UNCHANGED <<frame, idx, phase, askOther, replyTokens, helpResp,
                   opinions, verified, critiques, refined, blended, task,
                   refineLocal, failedCalls, acts, preVerify, firstDone,
                   critiqued, durKeys, lastRefine, lastBlend, refine_count,
                   more_time, asked, user_feedback, history, allowed,
                   timedVars, fileVars, configVars, rounds, calls, swarm>>

\* main_menu, choice 2: reasoning_logic is entered again with the same
\* agents.
PromptEnter ==
    /\ stage = "prompt-menu"
    /\ stage' = "idle"
    /\ UNCHANGED <<storeVars, frame, idx, phase, askOther, replyTokens,
                   helpResp, opinions, verified, critiques, refined, blended,
                   task, refineLocal, failedCalls, acts, preVerify, firstDone,
                   critiqued, durKeys, lastRefine, lastBlend, feedbackVars,
                   sideVars>>

\* Steps 1 to 4: every agent discusses, verifies, critiques and refines.
PromptPipeline ==
    /\ stage = "prompt-round"
    /\ messages' = [a \in Agents |-> LogAfterSteps(messages[a], a)]
    /\ refined' = [a \in Agents |->
                        ReplyText(a, "refine", FirstCallOfPass(0) + 1, 1)]
    /\ calls' = calls + 4 * NumAgents
    /\ stage' = "prompt-blend"
    /\ UNCHANGED <<chat_history, lastAppend, frame, idx, phase, askOther,
                   replyTokens, helpResp, opinions, verified, critiques,
                   blended, task, refineLocal, failedCalls, acts, preVerify,
                   firstDone, critiqued, durKeys, lastRefine, lastBlend,
                   feedbackVars, timedVars, fileVars, configVars, typed,
                   rounds, swarm>>

\* Step 5 and the start of the feedback loop: the responses are blended,
\* and refine_count, more_time, user_feedback are set.
PromptBlend ==
    /\ stage = "prompt-blend"
    /\ blended' = ReplyText(NoAgent, "blend", 0, 1)
    /\ refine_count' = 0
    /\ more_time' = FALSE
    /\ user_feedback' = "none"
    /\ rounds' = rounds + 1
    /\ calls' = calls + 1
    /\ stage' = "prompt-done"
    /\ UNCHANGED <<storeVars, frame, idx, phase, askOther, replyTokens,
                   helpResp, opinions, verified, critiques, refined, task,
                   refineLocal, failedCalls, acts, preVerify, firstDone,
                   critiqued, durKeys, lastRefine, lastBlend, extended,
                   asked, history, allowed, timedVars, fileVars, configVars,
                   typed, swarm>>

\* The feedback question is answered 'yes' or with something else than
\* yes, no, menu, exit.
PromptAnswer ==
    /\ stage = "prompt-done"
    /\ \E answer \in {"yes", "other"} :
        /\ user_feedback' = answer
        /\ stage' = IF answer = "yes" THEN "prompt-retain" ELSE stage
    /\ UNCHANGED <<storeVars, frame, idx, phase, askOther, replyTokens,
                   helpResp, opinions, verified, critiques, refined, blended,
                   task, refineLocal, failedCalls, acts, preVerify, firstDone,
                   critiqued, durKeys, lastRefine, lastBlend, extended,
                   refine_count, more_time, asked, history, allowed,
                   sideVars>>

\* The feedback question is answered 'menu' or 'exit'.
PromptLeave ==
    /\ stage = "prompt-done"
    /\ \E cmd \in {"menu", "exit"} :
        /\ user_feedback' = cmd
        /\ history' = Append(history, AbandonedRecord(cmd))
        /\ stage' = IF cmd = "menu" THEN "prompt-menu" ELSE "prompt-exit"
    /\ UNCHANGED <<storeVars, frame, idx, phase, askOther, replyTokens,
                   helpResp, opinions, verified, critiques, refined, blended,
                   task, refineLocal, failedCalls, acts, preVerify, firstDone,
                   critiqued, durKeys, lastRefine, lastBlend, extended,
                   refine_count, more_time, asked, allowed, sideVars>>

\* The feedback question is answered 'no': every agent refines again and
\* the responses are blended again.
PromptNo ==
    /\ stage = "prompt-done"
    /\ user_feedback' = "no"
    /\ refine_count' = refine_count + 1
    /\ IF AsksMoreTime(refine_count + 1)
       THEN \E answer \in BOOLEAN : more_time' = answer
       ELSE more_time' = more_time
    /\ messages' = [a \in Agents |->
                        LogAfterRefine(messages[a], a, refine_count + 1)]
    /\ refined' = [a \in Agents |->
            ReplyText(a, "refine", FirstCallOfPass(refine_count + 1) + 1, 1)]
    /\ blended' = ReplyText(NoAgent, "blend", refine_count + 1, 1)
    /\ calls' = calls + NumAgents + 1
    /\ stage' = IF refine_count + 1 < MAX_REFINEMENT_ATTEMPTS
                THEN "prompt-done" ELSE "prompt-retain"
    /\ UNCHANGED <<chat_history, lastAppend, frame, idx, phase, askOther,
                   replyTokens, helpResp, opinions, verified, critiques,
                   task, refineLocal, failedCalls, acts, preVerify,
                   firstDone, critiqued, durKeys, lastRefine, lastBlend,
                   extended, asked, history, allowed, timedVars, fileVars,
                   configVars, typed, rounds, swarm>>

\* The question about the context, the clearing of the logs, the record;
\* the prompt is put again.
PromptRetain ==
    /\ stage = "prompt-retain"
    /\ \E keep \in BOOLEAN :
        /\ messages' = IF keep THEN messages ELSE NoLogs
        /\ history' = Append(history, FinalRecord(keep))
    /\ stage' = "idle"
    /\ UNCHANGED <<chat_history, lastAppend, frame, idx, phase, askOther,
                   replyTokens, helpResp, opinions, verified, critiques,
                   refined, blended, task, refineLocal, failedCalls, acts,
                   preVerify, firstDone, critiqued, durKeys, lastRefine,
                   lastBlend, extended, refine_count, more_time, asked,
                   user_feedback, allowed, sideVars>>

NextPrompt ==
    \/ PromptRead \/ PromptEnter \/ PromptPipeline \/ PromptBlend
    \/ PromptAnswer \/ PromptLeave \/ PromptNo \/ PromptRetain

SpecPrompt == InitAgents /\ [][NextPrompt]_vars

\* ------------------------------------------------------------------------
\* The swarm pipeline: run_swarm_reasoning, one client.run call per step.
\* Agents are named by their index in the list.
\* ------------------------------------------------------------------------
\* Most agents initialize_swarm_agents returns in the harness.
MaxSwarmAgents == 3
\* The replies the swarm client can give to one request.
Variants == {1, 2}

SwarmAgents == 0 .. (swarm.num_agents - 1)

\* response.messages[-1]['content']: a reply written by agent `by` in the
\* step `act` about the response of agent `about`.
SwarmReply(by, act, about, v) ==
    [by |-> by, act |-> act, about |-> about, v |-> v]

\* The response a text is about; the user's prompt is about none.
AboutOf(text) == IF text = NoText THEN NoAgent ELSE text.about

\* other_agent = agents[(i + 1) % num_agents]
SwarmOther(i) == (i + 1) % swarm.num_agents

\* critique_prompt: the agent named and the text to critique.
SwarmCritiquePrompt(i) ==
    [named |-> SwarmOther(i), text |-> swarm.verified_opinions[SwarmOther(i)]]

\* refine_prompt: the agent named as the critique's author, "Your Original
\* Response" and the critique text.
SwarmRefinePrompt(i) ==
    [named |-> SwarmOther(i), original |-> swarm.opinions[i],
     critique |-> swarm.critiques[i]]

\* agents = initialize_swarm_agents(); the four dictionaries are empty.
SwarmStart ==
    /\ swarm.step = "idle"
    /\ \E n \in 1 .. MaxSwarmAgents :
        swarm' = [step |-> "discuss", i |-> 0, num_agents |-> n,
                  opinions |-> [a \in 0 .. (n - 1) |-> NoText],
                  verified_opinions |-> [a \in 0 .. (n - 1) |-> NoText],
                  critiques |-> [a \in 0 .. (n - 1) |-> NoText],
                  refined_opinions |-> [a \in 0 .. (n - 1) |-> NoText],
                  refine_prompts |-> [a \in 0 .. (n - 1) |-> NoSwarmPrompt]]
    /\ UNCHANGED <<storeVars, frame, pipelineVars, timedVars, fileVars,
                   configVars, promptVars>>

\* The loop variable after agent i, and the step after the last agent.
SwarmAdvance(s, next) ==
    IF s.i + 1 = s.num_agents
    THEN [s EXCEPT !.step = next, !.i = 0]
    ELSE [s EXCEPT !.i = @ + 1]

\* Step 1: the agent answers the user's prompt.
SwarmDiscuss ==
    /\ swarm.step = "discuss"
    /\ \E v \in Variants :
        swarm' = SwarmAdvance(
            [swarm EXCEPT !.opinions[swarm.i] =
                SwarmReply(swarm.i, "discuss", swarm.i, v)],
            "verify")
    /\ UNCHANGED <<storeVars, frame, pipelineVars, timedVars, fileVars,
                   configVars, promptVars>>

\* Step 2: the agent verifies its own opinion.
SwarmVerify ==
    /\ swarm.step = "verify"
    /\ \E v \in Variants :
        swarm' = SwarmAdvance(
            [swarm EXCEPT !.verified_opinions[swarm.i] =
                SwarmReply(swarm.i, "verify",
                           AboutOf(swarm.opinions[swarm.i]), v)],
            "critique")
    /\ UNCHANGED <<storeVars, frame, pipelineVars, timedVars, fileVars,
                   configVars, promptVars>>

\* Step 3: the agent critiques the verified response of the next agent;
\* the critique is stored under the critic's name.
SwarmCritique ==
    /\ swarm.step = "critique"
    /\ \E v \in Variants :
        swarm' = SwarmAdvance(
            [swarm EXCEPT !.critiques[swarm.i] =
                SwarmReply(swarm.i, "critique",
                           AboutOf(SwarmCritiquePrompt(swarm.i).text), v)],
            "refine")
    /\ UNCHANGED <<storeVars, frame, pipelineVars, timedVars, fileVars,
                   configVars, promptVars>>

\* Step 4: the agent refines its opinion with the refine prompt.
SwarmRefine ==
    /\ swarm.step = "refine"
    /\ \E v \in Variants :
        swarm' = SwarmAdvance(
            [swarm EXCEPT
                !.refine_prompts[swarm.i] = SwarmRefinePrompt(swarm.i),
                !.refined_opinions[swarm.i] =
                    SwarmReply(swarm.i, "refine",
                               AboutOf(SwarmRefinePrompt(swarm.i).original),
                               v)],
            "blend")
    /\ UNCHANGED <<storeVars, frame, pipelineVars, timedVars, fileVars,
                   configVars, promptVars>>

\* Step 5: the refined responses are blended and the text is returned.
SwarmBlend ==
    /\ swarm.step = "blend"
    /\ swarm' = [swarm EXCEPT !.step = "returned"]
    /\ UNCHANGED <<storeVars, frame, pipelineVars, timedVars, fileVars,
                   configVars, promptVars>>

NextSwarm ==
    \/ SwarmStart \/ SwarmDiscuss \/ SwarmVerify \/ SwarmCritique
    \/ SwarmRefine \/ SwarmBlend

SpecSwarm == InitAgents /\ [][NextSwarm]_vars

\* ------------------------------------------------------------------------
\* Properties of the conversation store
\* ------------------------------------------------------------------------
IsSuffix(s, full) ==
    /\ Len(s) <= Len(full)
    /\ s = SubSeq(full, Len(full) - Len(s) + 1, Len(full))

Appended(a, mode) == lastAppend[a][mode] # NoAppend

\* C1: after an append to an agent's reasoning log, either the token costs
\* of the stored messages sum to at most MAX_TOTAL_TOKENS, or exactly one
\* message remains and it alone exceeds the budget; the log is not empty.
C1_BudgetAfterAppend ==
    \A a \in Agents :
        Appended(a, "reasoning") =>
            LET log == messages[a]
            IN /\ Len(log) >= 1
               /\ \/ TotalTokens(log) <= MAX_TOTAL_TOKENS
                  \/ /\ Len(log) = 1
                     /\ TokenLen(log[1].content) > MAX_TOTAL_TOKENS

\* An append of an over-budget message to a log that held messages: they
\* are all evicted and the new message stays alone.
C1_Witness ==
    \E a \in Agents :
        /\ Appended(a, "reasoning")
        /\ Len(lastAppend[a]["reasoning"].before) >= 2
        /\ Len(messages[a]) = 1
        /\ TotalTokens(messages[a]) > MAX_TOTAL_TOKENS

\* C2: after an append the log is a contiguous suffix of the log before the
\* append followed by the new message (eviction is from the old end only
\* and keeps the order).
C2_FifoEviction ==
    \A a \in Agents :
        Appended(a, "reasoning") =>
            IsSuffix(messages[a],
                     Append(lastAppend[a]["reasoning"].before,
                            lastAppend[a]["reasoning"].msg))

\* An append that evicted the oldest message and kept an older one.
C2_Witness ==
    \E a \in Agents :
        /\ Appended(a, "reasoning")
        /\ Len(messages[a]) >= 2
        /\ Len(messages[a]) <= Len(lastAppend[a]["reasoning"].before)
        /\ messages[a][1] # lastAppend[a]["reasoning"].before[1]

\* ------------------------------------------------------------------------
\* Properties of the completion call
\* ------------------------------------------------------------------------
Last(log) == log[Len(log)]

\* C3: a completion call makes at most RETRY_LIMIT attempts, none after an
\* attempt that succeeded, exactly RETRY_LIMIT when every attempt failed,
\* and then returns the sentinel with the elapsed time.
C3_RetryBounded ==
    \A t \in Threads :
        LET f == frame[t]
        IN /\ f.attempts <= RETRY_LIMIT
           /\ f.appended > 0 => /\ f.pc = "returned"
                                /\ f.reply # SENTINEL
                                /\ f.attempts = f.retries + 1
           /\ (f.pc \in {"request", "sleep"}) =>
                    /\ f.retries < RETRY_LIMIT
                    /\ f.attempts = f.retries
           /\ (f.pc = "returned" /\ f.appended = 0) =>
                    /\ f.attempts = RETRY_LIMIT
                    /\ f.retries = RETRY_LIMIT
                    /\ f.reply = SENTINEL
                    /\ f.duration = f.elapsed

\* A call whose three attempts all failed has returned the sentinel.
C3_Witness ==
    /\ frame[MainThread].pc = "returned"
    /\ frame[MainThread].reply = SENTINEL
    /\ frame[MainThread].attempts = RETRY_LIMIT
    /\ frame[MainThread].mode = "chat"

\* C4 as claimed: the k-th delay is base * factor^(k-1), and a call that
\* failed persistently has slept once per failure.
C4_OneDelayPerFailure ==
    \A t \in Threads :
        LET f == frame[t]
        IN /\ \A k \in 1 .. Len(f.sleeps) :
                f.sleeps[k] = BACKOFF_BASE * (RETRY_BACKOFF_FACTOR ^ (k - 1))
           /\ (f.pc = "returned" /\ f.reply = SENTINEL) =>
                Len(f.sleeps) = f.retries

\* C4 as amended: the k-th delay is base * factor^(k-1); the call sleeps
\* once after every failure that is followed by another attempt, and not
\* after the failure that exhausts the limit, so a call that failed
\* persistently has slept RETRY_LIMIT - 1 times.
C4_BackoffDelays ==
    \A t \in Threads :
        LET f == frame[t]
        IN /\ \A k \in 1 .. Len(f.sleeps) :
                f.sleeps[k] = BACKOFF_BASE * (RETRY_BACKOFF_FACTOR ^ (k - 1))
           /\ f.pc = "request" => Len(f.sleeps) = f.retries
           /\ f.pc = "sleep" => Len(f.sleeps) = f.retries - 1
           /\ (f.pc = "returned" /\ f.reply # SENTINEL) =>
                Len(f.sleeps) = f.retries
           /\ (f.pc = "returned" /\ f.reply = SENTINEL) =>
                Len(f.sleeps) = RETRY_LIMIT - 1

\* A call that failed persistently, after its two sleeps.
C4_Witness ==
    /\ frame[MainThread].pc = "returned"
    /\ frame[MainThread].reply = SENTINEL
    /\ Len(frame[MainThread].sleeps) = 2

\* C5: when a call has returned a reply, the agent's log is the log the
\* call started from with that one assistant message appended (and old
\* messages evicted); when it has returned the sentinel the log is the one
\* the call started from.
C5_ReplyStoredSentinelNot ==
    \A t \in Threads :
        LET f == frame[t]
            log == LogOf(f.agent, f.mode)
        IN f.pc = "returned" =>
            IF f.reply = SENTINEL
            THEN log = f.snapshot
            ELSE /\ Len(log) >= 1
                 /\ Last(log) = Message("assistant", f.reply)
                 /\ IsSuffix(log, Append(f.snapshot,
                                         Message("assistant", f.reply)))
                 /\ f.appended = 1

\* A call that returned the sentinel to an agent whose log holds messages.
C5_Witness ==
    /\ frame[MainThread].pc = "returned"
    /\ frame[MainThread].reply = SENTINEL
    /\ frame[MainThread].mode = "reasoning"
    /\ Len(messages[frame[MainThread].agent]) >= 2

\* C7 as claimed: once the token encoding was unavailable in a call, the
\* call is neither retried nor turned into a sentinel reply: the failure
\* has left the call as an exception.
C7_EncodingFailurePropagates ==
    \A t \in Threads :
        frame[t].encFail => frame[t].pc \notin {"request", "sleep", "returned"}

\* ------------------------------------------------------------------------
\* Properties of the round
\* ------------------------------------------------------------------------
StageOrder == <<"discuss", "verify", "critique", "refine">>

Once == [started |-> 1, finished |-> 1]

AnyStarted(s) == \E a \in Agents : acts[s][a].started > 0
AllFinished(s) == \A a \in Agents : acts[s][a] = Once

\* C6: a round that has entered the Discuss stage reaches the terminal
\* state with a blended text, whichever attempts fail on the way.
C6_RoundCompletes ==
    (stage = "discuss") ~> (stage = "done" /\ blended # NoText)

\* A finished round in which a verify and a refine action ended with the
\* sentinel.
C6_Witness ==
    /\ stage = "done"
    /\ blended # NoText
    /\ \E a \in Agents : verified[a] = SENTINEL
    /\ \E a \in Agents : refined[a] = SENTINEL

\* C8: the stages run in the order Discuss, Verify, Critique, Refine,
\* Blend: an action of a stage has started only if every action of the
\* stage before it has finished, every agent's action runs once per stage,
\* and the blend is made after every stage is complete.
C8_StageOrder ==
    /\ \A k \in 1 .. 3 :
            AnyStarted(StageOrder[k + 1]) => AllFinished(StageOrder[k])
    /\ \A s \in Stages, a \in Agents :
            /\ acts[s][a].started <= 1
            /\ acts[s][a].finished <= acts[s][a].started
    /\ stage \in {"blend", "done"} => \A s \in Stages : AllFinished(s)
    /\ blended # NoText => stage = "done"
    /\ stage = "critique" => AllFinished("verify")
    /\ stage = "refine" => AllFinished("critique")

\* The round is complete, with a blended answer.
C8_Witness ==
    /\ stage = "done"
    /\ blended = ReplyText(NoAgent, "blend", 0, replyTokens)
    /\ \A s \in Stages : AllFinished(s)

VerifySubmitted ==
    \/ stage = "verify" /\ phase = "collect"
    \/ stage \in {"critique", "refine", "blend", "done"}

\* C9: the Verify stage hands the executor exactly one task per agent, and
\* the Critique stage has begun only if every task has finished and its
\* result is in verified_opinions.
C9_VerifyBarrier ==
    /\ VerifySubmitted =>
            /\ \A i \in Agents : task[i].state # "none"
            /\ \A a \in Agents :
                    Cardinality({i \in Agents : task[i].agent = a}) = 1
    /\ (AnyStarted("critique") \/ stage \in {"critique", "refine", "blend", "done"}) =>
            \A i \in Agents :
                /\ task[i].state = "collected"
                /\ frame[i].pc = "idle"
                /\ task[i].result # NoText
                /\ verified[FutureAgent(i)] = task[i].result

\* The Critique stage is entered after the task submitted last finished
\* first.
C9_Witness ==
    /\ stage = "critique" /\ idx = 0 /\ phase = "loop"
    /\ firstDone = NumAgents - 1
    /\ \A i \in Agents : task[i].state = "collected"

Active(t) == frame[t].pc # "idle"

\* The reply of agent a's verify task once the task has stored it, else
\* NoText.
VerifyReplyOf(a) ==
    IF Active(a) /\ frame[a].pc = "returned" /\ frame[a].reply # SENTINEL
    THEN frame[a].reply
    ELSE IF task[a].state \in {"finished", "collected"}
            /\ task[a].result # SENTINEL
    THEN task[a].result
    ELSE NoText

\* C10: no two running calls work on the same agent; a verify task works
\* on the agent it was submitted for; and through the Verify stage, up to
\* its end, each agent's log is its log from before the stage, with its own
\* verify reply appended (and the oldest messages evicted) once its task
\* has succeeded.
C10_VerifyOwnLog ==
    /\ \A t1, t2 \in Threads :
            (t1 # t2 /\ Active(t1) /\ Active(t2)) =>
                frame[t1].agent # frame[t2].agent
    /\ \A i \in Agents : Active(i) => frame[i].agent = FutureAgent(i)
    /\ (stage = "verify" \/ (stage = "critique" /\ idx = 0 /\ phase = "loop")) =>
            \A a \in Agents :
                messages[a] =
                    IF VerifyReplyOf(a) = NoText
                    THEN preVerify[a]
                    ELSE AddMessage(preVerify[a], "assistant",
                                    VerifyReplyOf(a), "reasoning")

\* The Verify stage has ended; one agent's reply evicted its older
\* messages and another agent's task ended with the sentinel.
C10_Witness ==
    /\ stage = "critique" /\ idx = 0 /\ phase = "loop"
    /\ \E a \in Agents :
            /\ verified[a] # SENTINEL
            /\ preVerify[a] # << >>
            /\ messages[a][1] # preVerify[a][1]
    /\ \E b \in Agents :
            /\ verified[b] = SENTINEL
            /\ messages[b] = preVerify[b]
            /\ preVerify[b] # << >>

\* The agent whose turn thread t is processing: the agent of the stage's
\* loop on the main thread, the agent of its task on a pool worker.
TurnAgent(t) == IF t = MainThread THEN idx ELSE task[t].agent

\* C11 as claimed: a step changes the reasoning log of agent b only if it
\* is the return of a completion call that works on b, made by the thread
\* that is processing b's turn; while an agent's turn is processed no other
\* agent's log changes.
C11_NoCrossAgentMutation ==
    [][\A b \in Agents :
            messages'[b] # messages[b] =>
                \E t \in Threads :
                    /\ frame[t].pc = "request"
                    /\ frame'[t].pc = "returned"
                    /\ frame[t].agent = b
                    /\ TurnAgent(t) = b]_vars

C13_RefinesOwnOpinion ==
    /\ (stage = "refine" /\ phase = "call") =>
            /\ frame[MainThread].agent = idx
            /\ frame[MainThread].action = "refine"
            /\ refineLocal.data = opinions[idx]
            /\ refineLocal.k = 2
            /\ refineLocal.moreTime = FALSE
            /\ refineLocal.iter < 2
            /\ refineLocal.iter = 0 =>
                    frame[MainThread].prompt =
                        Prompt("refine", opinions[idx], NoText, FALSE)
    /\ stage \in {"refine", "blend", "done"} =>
            \A a \in Agents :
                lastRefine[a] # NoRefineCall =>
                    /\ lastRefine[a].data = opinions[a]
                    /\ lastRefine[a].k = 2
                    /\ lastRefine[a].rounds = 2
                    /\ lastRefine[a].moreTime = FALSE
    /\ stage \in {"blend", "done"} =>
            \A a \in Agents : lastRefine[a] # NoRefineCall

\* Every agent has refined its opinion, which differs from its verified
\* text, from the critiques and from the other agents' opinions.
C13_Witness ==
    /\ stage = "blend"
    /\ \A a \in Agents :
            /\ lastRefine[a].data = ReplyText(a, "discuss", 0, replyTokens)
            /\ lastRefine[a].rounds = 2
            /\ verified[a] = ReplyText(a, "verify", 0, replyTokens)
            /\ critiques[a] = ReplyText(a, "critique", 0, replyTokens)
            /\ refined[a] = ReplyText(a, "refine", 1, replyTokens)

\* ------------------------------------------------------------------------
\* Properties of Agent.refine
\* ------------------------------------------------------------------------
RECURSIVE SumSeq(_)
SumSeq(q) == IF q = << >> THEN 0 ELSE Head(q) + SumSeq(Tail(q))

\* C14: refine(data, moreTime, k) makes its completion calls one after the
\* other on the agent it is called on; the request of round 1 is built
\* from data, with the more-time directive exactly when moreTime is set;
\* the request of round i+1 is built, without the directive, from the
\* output of round i, sentinel or not; when the action has returned it has
\* made exactly k calls, its text is the output of round k and its duration
\* is the sum of the durations of the k rounds.
C14_RefineFold ==
    LET r == refineLocal
        f == frame[MainThread]
    IN /\ (stage = "idle" /\ phase = "call") =>
            /\ r.iter < r.k
            /\ Len(r.outs) = r.iter /\ Len(r.durs) = r.iter
            /\ f.action = "refine" /\ f.n = r.iter
            /\ f.prompt = IF r.iter = 0
                          THEN Prompt("refine", r.data, NoText, r.moreTime)
                          ELSE Prompt("further", r.outs[r.iter], NoText,
                                      FALSE)
            /\ r.total = SumSeq(r.durs)
       /\ (stage = "idle" /\ phase = "result") =>
            /\ r.iter = r.k
            /\ Len(r.outs) = r.k /\ Len(r.durs) = r.k
            /\ r.response = r.outs[r.k]
            /\ r.total = SumSeq(r.durs)
            /\ \E a \in Agents :
                    /\ refined[a] = r.outs[r.k]
                    /\ lastRefine[a].rounds = r.k
                    /\ \A i \in 1 .. r.k :
                            r.outs[i] \in {SENTINEL,
                                ReplyText(a, "refine", i - 1, replyTokens)}
                    /\ \A b \in Agents \ {a} : messages[b] = << >>

\* A refine of three iterations with the more-time directive has returned:
\* its second round ended with the sentinel, its third with a reply, and
\* its rounds took different times.
C14_Witness ==
    /\ stage = "idle" /\ phase = "result"
    /\ refineLocal.k = 3 /\ refineLocal.moreTime
    /\ refineLocal.outs[2] = SENTINEL
    /\ refineLocal.outs[3] # SENTINEL
    /\ refineLocal.durs[1] # refineLocal.durs[3]
    /\ refineLocal.total > refineLocal.durs[2]

\* ------------------------------------------------------------------------
\* Properties of the session
\* ------------------------------------------------------------------------
AfterBlend == {"done", "retain", "saved", "left"}

\* C15: every execution of the Blend stage makes exactly one request (one
\* after the Refine stage, one more after each re-refinement); the request
\* is built from the prompt as the user typed it, not from the extended
\* prompt, and from the refined text of every agent of the list, each
\* under its agent's name; the blend leaves every agent's reasoning log
\* as it was.
C15_BlendStateless ==
    /\ stage \in {"discuss", "verify", "critique", "refine", "blend"} =>
            lastBlend.requests = 0
    /\ stage \in {"rerefine", "reblend"} =>
            lastBlend.requests = refine_count
    /\ stage \in AfterBlend =>
            /\ lastBlend.requests = 1 + refine_count
            /\ lastBlend.question = UserPrompt
            /\ Len(lastBlend.responses) = NumAgents
            /\ \A a \in Agents :
                    lastBlend.responses[a + 1] =
                        [name |-> a, response |-> refined[a]]
    /\ stage \in {"done", "retain"} => messages = lastBlend.logs

\* The responses were blended a second time, in a session whose prompt
\* was extended with local context and whose agents hold messages.
C15_Witness ==
    /\ stage = "done"
    /\ extended = ExtendedPrompt
    /\ lastBlend.requests = 2
    /\ blended = ReplyText(NoAgent, "blend", 1, replyTokens)
    /\ \A a \in Agents : Len(messages[a]) >= 2
    /\ \E a \in Agents : refined[a] = SENTINEL

\* C16: when the request of a blend has raised, the blended text is the
\* text "An error occurred while attempting to blend responses.", which is
\* not the sentinel of a completion call, and the session goes on: the
\* state after the failed blend is the feedback question (or, with the
\* attempts used up, the question about the context); and whenever the
\* round is over exactly one record was appended for it, holding the
\* prompt and the blended text, sentinel or not.
C16_BlendFailureDegrades ==
    /\ (lastBlend.failed /\ stage \in AfterBlend) =>
            /\ blended =
                    Text("An error occurred while attempting to blend responses.",
                         NoAgent, "", 0, 9)
            /\ blended # SENTINEL
    /\ (lastBlend.failed /\ lastBlend.requests = 1 + refine_count) =>
            stage \in AfterBlend
    /\ lastBlend.failed => lastBlend.requests >= 1
    /\ stage \in {"saved", "left"} =>
            /\ Len(history) = 1
            /\ history[1].user_prompt = UserPrompt
            /\ history[1].final_response = blended
    /\ stage \notin {"saved", "left"} => history = << >>

\* The first blend failed, the user answered yes, and the record with the
\* blend sentinel was appended.
C16_Witness ==
    /\ stage = "saved"
    /\ lastBlend.failed /\ lastBlend.requests = 1
    /\ user_feedback = "yes"
    /\ history[1].final_response = BLEND_SENTINEL

\* The stages of a session in program order, and the stages at which the
\* loop of a pipeline stage is over.
SessionStages ==
    <<"discuss", "verify", "critique", "refine", "blend", "done",
      "rerefine", "reblend", "retain", "saved", "left">>

StageIndex(s) == CHOOSE k \in 1 .. Len(SessionStages) : SessionStages[k] = s

After(s) == {SessionStages[k] : k \in (StageIndex(s) + 1) .. Len(SessionStages)}

MapOf(s) ==
    CASE s = "discuss" -> opinions
      [] s = "verify" -> verified
      [] s = "critique" -> critiques
      [] s = "refine" -> refined

Keys(map) == {a \in Agents : map[a] # NoText}

\* C17: the text map and the durations map of a stage always have the same
\* keys, and only agents of the list; while the stage's loop runs they are
\* the agents already processed; from the end of the stage on, through the
\* later stages and every iteration of the feedback loop until the record
\* is saved, they are all the agents of the list, whether the actions
\* returned replies or sentinels.
C17_MapsKeepAgentSet ==
    \A s \in Stages :
        /\ Keys(MapOf(s)) = durKeys[s]
        /\ durKeys[s] \subseteq Agents
        /\ stage \in After(s) => durKeys[s] = Agents
        /\ (stage = s /\ s # "verify") => durKeys[s] = 0 .. (idx - 1)
        /\ (stage = s /\ s = "verify") =>
                durKeys[s] = IF phase = "collect" THEN 0 .. (idx - 1) ELSE {}
        /\ (stage # "idle" /\ stage \notin After(s) /\ stage # s) =>
                durKeys[s] = {}

\* A session is over after two re-refinements; a Discuss action had ended
\* with the sentinel, and every map is complete.
C17_Witness ==
    /\ stage = "saved"
    /\ refine_count = 2
    /\ \E a \in Agents : opinions[a] = SENTINEL
    /\ \A s \in Stages : Keys(MapOf(s)) = Agents

\* C18: the attempt counter never exceeds 3; the feedback question is put
\* only while it is below 3, so after the third 'no' the loop is left
\* without another question; a loop left with the answer 'no' has counted
\* 3 attempts; and the blended text held after the loop, and saved, is the
\* result of the latest blend.
C18_FeedbackLoopBounded ==
    /\ refine_count \in 0 .. 3
    /\ stage = "done" => refine_count < 3
    /\ stage \in {"rerefine", "reblend"} =>
            /\ refine_count \in 1 .. 3
            /\ user_feedback = "no"
    /\ stage \in {"retain", "saved"} =>
            /\ user_feedback \in {"yes", "no"}
            /\ user_feedback = "no" <=> refine_count = 3
            /\ lastBlend.requests = 1 + refine_count
            /\ blended = IF lastBlend.failed
                         THEN BLEND_SENTINEL
                         ELSE ReplyText(NoAgent, "blend", refine_count,
                                        replyTokens)
    /\ stage = "saved" => history[Len(history)].final_response = blended

\* The user answered 'no' three times: the loop was left and the record
\* holds the fourth blended text.
C18_Witness ==
    /\ stage = "saved"
    /\ refine_count = 3
    /\ user_feedback = "no"
    /\ history[1].final_response = ReplyText(NoAgent, "blend", 3, replyTokens)

\* The agents whose re-refinement of the current pass has returned.
ReRefined ==
    IF stage = "rerefine" THEN 0 .. (idx - 1)
    ELSE IF stage = "reblend" THEN Agents
    ELSE {}

\* C19 as claimed: the more-time question is put when the counter reaches
\* 2, and the answer given then is the flag of every refine call from then
\* on; before that the flag is false.
C19_FirstAnswerKept ==
    /\ refine_count < 2 => (asked = << >> /\ more_time = FALSE)
    /\ refine_count >= 2 => (asked # << >> /\ more_time = asked[1])
    /\ (stage = "rerefine" /\ phase = "call") =>
            refineLocal.moreTime =
                IF refine_count >= 2 THEN asked[1] ELSE FALSE
    /\ \A a \in ReRefined :
            lastRefine[a].moreTime =
                IF refine_count >= 2 THEN asked[1] ELSE FALSE

\* C19 as amended: the more-time question is put on every 'no' from the
\* second one on (when the counter becomes 2 and again when it becomes 3);
\* every refine call of a re-refinement pass is made with the answer given
\* last, and with false when the question was not yet put.
C19_MoreTimeLatestAnswer ==
    /\ Len(asked) = IF refine_count >= 2 THEN refine_count - 1 ELSE 0
    /\ more_time = IF asked = << >> THEN FALSE ELSE asked[Len(asked)]
    /\ (stage = "rerefine" /\ phase = "call") =>
            /\ refineLocal.moreTime = more_time
            /\ refineLocal.k = 2
            /\ refineLocal.iter = 0 =>
                    frame[MainThread].prompt =
                        Prompt("refine", refined[idx], NoText, more_time)
            /\ refineLocal.iter > 0 =>
                    frame[MainThread].prompt.moreTime = FALSE
    /\ \A a \in ReRefined : lastRefine[a].moreTime = more_time

\* After the third 'no' every agent has refined with more time, although
\* the answer given after the second 'no' was no.
C19_Witness ==
    /\ stage = "reblend"
    /\ refine_count = 3
    /\ asked = <<FALSE, TRUE>>
    /\ \A a \in Agents : lastRefine[a].moreTime

\* The text agent a's refine action of pass p returns (p = 0: the Refine
\* stage): the reply to its last request, or the sentinel.
RefinedBy(a, p) ==
    {SENTINEL, ReplyText(a, "refine", 2 * p + 1, replyTokens)}

\* C20: a 'no' answer increments the counter and starts a pass in which
\* the refine action of every agent, in list order, is called with that
\* agent's refined text of the pass before (not its opinion, not a text of
\* another agent) and its result replaces the agent's refined text; then
\* the new refined texts are blended and the result replaces the blended
\* text.
C20_ReRefineOwnCurrent ==
    /\ (stage = "rerefine" /\ phase = "call") =>
            /\ frame[MainThread].agent = idx
            /\ frame[MainThread].action = "refine"
            /\ refineLocal.data = refined[idx]
            /\ refineLocal.iter = 0 =>
                    frame[MainThread].prompt.data = refined[idx]
    /\ stage \in {"rerefine", "reblend"} =>
            \A a \in Agents :
                IF a \in ReRefined
                THEN /\ lastRefine[a].data \in RefinedBy(a, refine_count - 1)
                     /\ lastRefine[a].rounds = 2
                     /\ refined[a] \in RefinedBy(a, refine_count)
                ELSE refined[a] \in RefinedBy(a, refine_count - 1)
    /\ (stage \in {"done", "retain"} /\ refine_count > 0) =>
            /\ \A a \in Agents :
                    /\ refined[a] \in RefinedBy(a, refine_count)
                    /\ lastBlend.responses[a + 1].response = refined[a]
            /\ blended \in {BLEND_SENTINEL,
                             ReplyText(NoAgent, "blend", refine_count,
                                       replyTokens)}
            /\ lastBlend.requests = refine_count + 1

\* After the second 'no' every agent refined its text of the first
\* re-refinement, and the new texts were blended.
C20_Witness ==
    /\ stage = "done"
    /\ refine_count = 2
    /\ \A a \in Agents :
            /\ lastRefine[a].data = ReplyText(a, "refine", 3, replyTokens)
            /\ refined[a] = ReplyText(a, "refine", 5, replyTokens)
            /\ opinions[a] = ReplyText(a, "discuss", 0, replyTokens)
    /\ blended = ReplyText(NoAgent, "blend", 2, replyTokens)

\* C22: 'menu' or 'exit' is read only where the loop asks for feedback, so
\* no completion call is running; once it is read reasoning_logic is left
\* with no refine or blend call after the latest blend (the logs, the
\* refined texts and the blended text are those of that blend), and the
\* one record appended holds the current blended text with
\* context_retained false.
C22_LeaveAtLoopBoundary ==
    stage = "left" =>
        /\ user_feedback \in {"menu", "exit"}
        /\ \A t \in Threads : frame[t].pc = "idle"
        /\ refineLocal = NoRefine
        /\ history = << Record(UserPrompt, blended, user_feedback, FALSE) >>
        /\ lastBlend.requests = refine_count + 1
        /\ lastBlend.responses = AgentResponses
        /\ messages = lastBlend.logs
        /\ blended \in {BLEND_SENTINEL,
                         ReplyText(NoAgent, "blend", refine_count,
                                   replyTokens)}
        /\ \A a \in Agents :
                acts["refine"][a].finished = refine_count + 1

\* 'exit' is typed after the first re-refinement was blended.
C22_Witness ==
    /\ stage = "left"
    /\ user_feedback = "exit"
    /\ refine_count = 1
    /\ Len(history) = 1
    /\ history[1].final_response =
            ReplyText(NoAgent, "blend", 1, replyTokens)
    /\ \A a \in Agents : messages[a] # << >>

\* C21: an agent's refine-duration total is the duration of its Refine
\* stage action plus the durations of its later refine actions, one for
\* each re-refinement it has made: a re-refinement adds to the total and
\* never resets it.
C21_DurationsAccumulate ==
    \A a \in Agents :
        /\ a \in DOMAIN refine_durations <=> refineLog[a] # << >>
        /\ a \in DOMAIN refine_durations =>
                refine_durations[a] =
                    Head(refineLog[a]) + SumSeq(Tail(refineLog[a]))
        /\ stage \in {"timed-blend", "timed-done", "timed-end"} =>
                Len(refineLog[a]) = refine_count + 1
        /\ stage = "timed-rerefine" =>
                Len(refineLog[a]) =
                    IF a < idx THEN refine_count + 1 ELSE refine_count

\* After two re-refinements the first agent's total is 1 + (3 + 3) and
\* the second agent's is 3 + (1 + 1).
C21_Witness ==
    /\ stage = "timed-done"
    /\ refine_count = 2
    /\ refineLog[0] = <<1, 3, 3>>
    /\ refine_durations[0] = 7
    /\ refineLog[NumAgents - 1] = <<3, 1, 1>>
    /\ refine_durations[NumAgents - 1] = 5

IsPrefix(s, full) ==
    Len(s) <= Len(full) /\ SubSeq(full, 1, Len(s)) = s

\* The records a file holds (none unless it is a list).
Held(file) == IF file.kind = "list" THEN file.items ELSE << >>

\* C23: a step never removes, reorders or rewrites a record a history file
\* holds, and the write that ends an append leaves the file holding what
\* it held before followed by the new record.
C23_AppendOnly ==
    [][\A ch \in Channels :
          /\ IsPrefix(Held(files[ch]), Held(files'[ch]))
          /\ (writer[1].pc = "write" /\ writer'[1].pc = "idle"
                /\ writer[1].path = ch) =>
                /\ files'[ch].kind = "list"
                /\ files'[ch].items =
                        Append(Held(files[ch]), Dump(writer[1].record))
                /\ LoadAll(files'[ch].items) =
                        Append(saved[writer[1].channel], writer[1].record)
      ]_vars

\* A file holds two different records, in the order of their appends.
C23_Witness ==
    \E ch \in Channels :
        /\ files[ch].kind = "list"
        /\ Len(files[ch].items) = 2
        /\ files[ch].items[1] # files[ch].items[2]
        /\ LoadAll(files[ch].items) = saved[ch]
        /\ writer[1].pc = "idle"

\* C24 (as the specification states it): whatever a history file holds,
\* neither the append nor the retrieval raises.
C24_StoreNeverFails ==
    /\ \A w \in Instances : writer[w].pc # "raised"
    /\ found.state # "raised"

\* C25 (as the specification states it): when no append is running, a
\* history file holds one record for each append that returned.
C25_NoLostUpdate ==
    \A ch \in Channels :
        (\A w \in Instances : writer[w].pc = "idle") =>
            Len(Held(files[ch])) = Len(saved[ch])

\* The records the loop lets through: all of them when there is no keyword.
Selected(entries, search_keywords) ==
    SelectSeq(entries,
              LAMBDA e : search_keywords = << >>
                         \/ AnyKeyword(e, search_keywords))

Min(a, b) == IF a <= b THEN a ELSE b

\* C26: a retrieval returns the summaries of the selected records from the
\* newest on, as many as there are but not more than max_records.
C26_NewestFirstCapped ==
    found.state = "returned" =>
        LET newest == Reverse(ReadData(found.file))
            selected == Selected(newest, FindWords(found.prompt))
        IN /\ found.file = files[found.channel]
           /\ Len(found.contexts) = Min(found.max_records, Len(selected))
           /\ \A i \in 1 .. Len(found.contexts) :
                found.contexts[i] = Summary(selected[i])

\* Two records with different timestamps match and max_records is 1: the
\* newer one alone is returned.
C26_Witness ==
    /\ found.state = "returned"
    /\ found.max_records = 1
    /\ Len(found.contexts) = 1
    /\ LET data == ReadData(found.file)
       IN /\ Len(data) = 2
          /\ data[1].timestamp # data[2].timestamp
          /\ \A i \in 1 .. 2 :
                AnyKeyword(data[i], FindWords(found.prompt))
          /\ found.contexts[1] = Summary(data[2])

\* C27 (as the specification states it): every summary a retrieval returns
\* is that of a record whose prompt and response, in lower case, contain a
\* word of the prompt the retrieval was made for.
C27_ReturnedContainToken ==
    found.state = "returned" =>
        LET data == ReadData(found.file)
        IN \A i \in 1 .. Len(found.contexts) :
                \E j \in 1 .. Len(data) :
                    /\ found.contexts[i] = Summary(data[j])
                    /\ AnyKeyword(data[j], FindWords(found.prompt))

\* The appended records of the channel that contain a keyword.
Matching(ch, search_keywords) ==
    {i \in 1 .. Len(saved[ch]) : AnyKeyword(saved[ch][i], search_keywords)}

\* C28: when the words of the prompt occur in one appended record of the
\* channel only, the retrieval returns one summary, holding the timestamp,
\* the prompt and the final response that were appended.
C28_RoundTrip ==
    (found.state = "returned" /\ FindWords(found.prompt) # << >>) =>
        \A i \in 1 .. Len(saved[found.channel]) :
            Matching(found.channel, FindWords(found.prompt)) = {i} =>
                LET record == saved[found.channel][i]
                IN /\ Len(found.contexts) = 1
                   /\ found.contexts[1][2] = record.timestamp
                   /\ found.contexts[1][4] = record.user_prompt
                   /\ found.contexts[1][6] = record.final_response

\* Of two appended records the older one alone holds the keyword; it was
\* appended a second before the retrieval.
C28_Witness ==
    /\ found.state = "returned"
    /\ Len(saved[found.channel]) = 2
    /\ Matching(found.channel, FindWords(found.prompt)) = {1}
    /\ saved[found.channel][1].timestamp = Strftime(0)
    /\ clock = 1
    /\ found.contexts = << Summary(saved[found.channel][1]) >>

\* C29: each history file holds the records appended on its channel and no
\* other, and a retrieval returns summaries of records appended on its own
\* channel only.
C29_ChannelsIndependent ==
    /\ \A ch \in Channels :
            files[ch].kind = "list" => LoadAll(files[ch].items) = saved[ch]
    /\ found.state = "returned" =>
            \A i \in 1 .. Len(found.contexts) :
                \E j \in 1 .. Len(saved[found.channel]) :
                    found.contexts[i] = Summary(saved[found.channel][j])

\* A record of the swarm channel holds a word of the prompt, the only
\* record of the reasoning channel does not, and the retrieval on the
\* reasoning channel returns nothing.
C29_Witness ==
    /\ found.state = "returned"
    /\ found.channel = "reasoning"
    /\ Len(saved["reasoning"]) = 1
    /\ Matching("swarm", FindWords(found.prompt)) # {}
    /\ FindWords(found.prompt) # << >>
    /\ found.contexts = << >>

\* C30 (as the specification states it): a pipeline that initialized its
\* agents while agents.json was absent, no JSON, or listed no agents has
\* the two default agents and runs on.
C30_DefaultsWithoutConfig ==
    \A p \in Pipelines :
        (roster[p].state # "none" /\ ~ConfigRaises
            /\ LoadAgentsConfig = << >>) =>
            /\ roster[p].state = "ready"
            /\ roster[p].agents = DefaultAgents

\* C31: in every order in which the verify tasks run and finish, the task
\* filed under agent a was run for agent a on opinions[a], its call sends
\* the verify prompt of that text, its result is either a verify reply of
\* agent a or the sentinel, and verified_opinions[a] is that result; once
\* the stage is over every task has run exactly once and been collected,
\* whichever of them ended with the sentinel.
C31_VerifiedOwnResult ==
    /\ \A i \in Agents :
            /\ task[i].state # "none" =>
                    /\ task[i].agent = i
                    /\ task[i].data = opinions[i]
            /\ (Active(i) /\ task[i].state = "running") =>
                    /\ frame[i].agent = i
                    /\ frame[i].action = "verify"
                    /\ frame[i].prompt = VerifyPrompt(opinions[i])
            /\ task[i].state \in {"finished", "collected"} =>
                    \/ task[i].result = SENTINEL
                    \/ task[i].result =
                            ReplyText(i, "verify", 0, task[i].result.tokens)
            /\ task[i].state = "collected" => verified[i] = task[i].result
            /\ task[i].state # "collected" => verified[i] = NoText
    /\ stage \in {"critique", "refine", "blend", "done"} =>
            \A a \in Agents :
                /\ task[a].state = "collected"
                /\ acts["verify"][a] = Once
                /\ verified[a] # NoText

\* The Verify stage is over; the task submitted last finished first, the
\* task of the first agent ended with the sentinel and the other agent's
\* verified text is its own reply.
C31_Witness ==
    /\ stage = "critique" /\ idx = 0 /\ phase = "loop"
    /\ firstDone = NumAgents - 1
    /\ verified[0] = SENTINEL
    /\ \E b \in Agents :
            /\ b # 0
            /\ verified[b] = ReplyText(b, "verify", 0, verified[b].tokens)
            /\ acts["verify"][b] = Once

\* The last n messages of a log.
LastN(log, n) == SubSeq(log, Len(log) - n + 1, Len(log))

\* C32: eviction removes no more than it must: after an append the log is
\* the longest suffix of (the old log followed by the new message) whose
\* token costs sum to at most the budget, and just the new message when
\* the new message alone exceeds the budget.
C32_LongestSuffixKept ==
    \A a \in Agents :
        Appended(a, "reasoning") =>
            LET whole == Append(lastAppend[a]["reasoning"].before,
                                lastAppend[a]["reasoning"].msg)
                fits == {n \in 1 .. Len(whole) :
                            TotalTokens(LastN(whole, n)) <= MAX_TOTAL_TOKENS}
            IN IF fits = {}
               THEN messages[a] = <<lastAppend[a]["reasoning"].msg>>
               ELSE /\ Len(messages[a]) \in fits
                    /\ \A n \in fits : n <= Len(messages[a])
                    /\ messages[a] = LastN(whole, Len(messages[a]))

\* An append that evicted the oldest message and left a log of two
\* messages holding exactly the budget.
C32_Witness ==
    \E a \in Agents :
        /\ Appended(a, "reasoning")
        /\ Len(lastAppend[a]["reasoning"].before) = 2
        /\ Len(messages[a]) = 2
        /\ TotalTokens(messages[a]) = MAX_TOTAL_TOKENS
        /\ messages[a][1] = lastAppend[a]["reasoning"].before[2]

\* Every message of the log is a stored reply of agent a.
RepliesOnly(log, a) ==
    \A i \in 1 .. Len(log) :
        /\ log[i].role = "assistant"
        /\ log[i].content = ReplyText(a, log[i].content.act,
                                      log[i].content.n, log[i].content.tokens)

\* C33: every message in an agent's reasoning log has role assistant and is
\* a reply of that agent (no persona text and no discuss, verify, critique
\* or refine prompt is stored), and the history a running reasoning call
\* took from the log for its request consists of such replies only.
C33_RepliesOnlyStored ==
    /\ \A a \in Agents : RepliesOnly(messages[a], a)
    /\ \A t \in Threads :
            (Active(t) /\ frame[t].mode = "reasoning") =>
                RepliesOnly(frame[t].snapshot, frame[t].agent)

\* A refine call of the feedback loop is running on a log that holds
\* earlier replies, and its request carries them.
C33_Witness ==
    \E t \in Threads :
        /\ Active(t) /\ frame[t].mode = "reasoning"
        /\ frame[t].action = "refine"
        /\ refine_count >= 1
        /\ Len(frame[t].snapshot) >= 2
        /\ frame[t].snapshot = messages[frame[t].agent]
        /\ frame[t].prompt # NoText

\* C34 as claimed: when a record is appended with context_retained false
\* every agent's reasoning log is empty at that moment, and when it is
\* appended with context_retained true no log was cleared at the end of the
\* round (the logs are those the last blend left), on every path out of the
\* round.
C34_RecordMatchesLogs ==
    stage \in {"saved", "left"} =>
        LET record == history[Len(history)]
        IN /\ ~record.context_retained =>
                    \A a \in Agents : messages[a] = << >>
           /\ record.context_retained => messages = lastBlend.logs

\* The lines that start no round: menu, exit, history, clear in any case
\* and with surrounding blanks, and prompts of four characters or fewer.
StartsNoRound(line) ==
    \/ Lower(Strip(line)) \in { <<"m", "e", "n", "u">>,
                                <<"e", "x", "i", "t">>,
                                <<"h", "i", "s", "t", "o", "r", "y">>,
                                <<"c", "l", "e", "a", "r">> }
    \/ Len(Strip(line)) <= 4

\* The rounds that reached Blend and have not ended yet.
OpenRounds == IF stage \in {"prompt-done", "prompt-retain"} THEN 1 ELSE 0

\* C35: every round that reached Blend and has ended has appended exactly
\* one record, on whichever path it ended, and a round still in its
\* feedback loop none; a line read at the prompt that starts no round
\* appends no record, makes no call and starts no round; and the history
\* grows by one record at a time, only when a round ends.
C35_OneRecordPerRound ==
    /\ [](rounds = Len(history) + OpenRounds)
    /\ [][ /\ (stage = "idle" /\ StartsNoRound(typed')) =>
                /\ history' = history
                /\ calls' = calls
                /\ rounds' = rounds
                /\ stage' \in {"idle", "prompt-menu", "prompt-exit"}
           /\ history' # history =>
                /\ OpenRounds = 1
                /\ Len(history') = Len(history) + 1
                /\ history = SubSeq(history', 1, Len(history))
         ]_vars

\* Two rounds have ended, the first by 'menu' at the feedback question and
\* the second after the attempts were exhausted; then a prompt of four
\* characters was read.
C35_Witness ==
    /\ stage = "idle"
    /\ typed = <<"a", "b", "c", "d">>
    /\ rounds = 2
    /\ Len(history) = 2
    /\ history[1].user_feedback = "menu"
    /\ history[2].user_feedback = "no"
    /\ calls = 2 * (4 * NumAgents + 1) + 3 * (NumAgents + 1)

C37_OtherAnswerNoEffect ==
    [][ (stage = "done"
         /\ user_feedback' \notin {"yes", "no", "menu", "exit"}) =>
            /\ stage' = "done"
            /\ refine_count' = refine_count
            /\ refine_count' < MAX_REFINEMENT_ATTEMPTS
            /\ more_time' = more_time
            /\ asked' = asked
            /\ refined' = refined
            /\ messages' = messages
            /\ chat_history' = chat_history
            /\ blended' = blended
            /\ lastBlend' = lastBlend
            /\ history' = history
            /\ frame' = frame
            /\ acts' = acts
      ]_vars

\* After the second re-refinement was blended, the question was answered
\* with something else than yes, no, menu, exit and is open again.
C37_Witness ==
    /\ stage = "done"
    /\ user_feedback = "other"
    /\ refine_count = 2
    /\ history = << >>
    /\ blended = ReplyText(NoAgent, "blend", 2, replyTokens)

\* C38: the attempt counter (one per 'no' answer) stays between 0 and
\* MAX_REFINEMENT_ATTEMPTS; once a blend has completed, the blend calls of
\* the round number 1 plus the 'no' answers, and one less while the
\* re-refinement that a 'no' started has not been blended yet; so a round
\* makes at most 4 blend calls, and an agent at most 3 refine actions after
\* its Refine stage action.
C38_BlendsFollowAttempts ==
    /\ refine_count \in 0 .. MAX_REFINEMENT_ATTEMPTS
    /\ stage \in {"done", "retain", "saved", "left"} =>
            lastBlend.requests = 1 + refine_count
    /\ stage \in {"rerefine", "reblend"} =>
            /\ lastBlend.requests = refine_count
            /\ refine_count >= 1
    /\ stage \in {"discuss", "verify", "critique", "refine", "blend"} =>
            /\ lastBlend.requests = 0
            /\ refine_count = 0
    /\ lastBlend.requests <= 1 + MAX_REFINEMENT_ATTEMPTS
    /\ \A a \in Agents :
            /\ acts["refine"][a].started <= 1 + refine_count
            /\ acts["refine"][a].started <= 1 + MAX_REFINEMENT_ATTEMPTS
            /\ stage \in {"done", "retain", "saved", "left", "reblend"} =>
                    acts["refine"][a].finished = 1 + refine_count

\* The third 'no' has been answered with a re-refinement of every agent
\* and a fourth blend; the loop is left.
C38_Witness ==
    /\ stage = "retain"
    /\ refine_count = MAX_REFINEMENT_ATTEMPTS
    /\ user_feedback = "no"
    /\ lastBlend.requests = 4
    /\ \A a \in Agents : acts["refine"][a].finished = 4

\* C39 as claimed: the critique text in the refine prompt of agent i is a
\* critique of agent i's own response, written by the agent after it in
\* the list, which is the agent the prompt names as the critique's author.
C39_CritiqueOfOwnResponse ==
    \A i \in SwarmAgents :
        swarm.refine_prompts[i] # NoSwarmPrompt =>
            LET prompt == swarm.refine_prompts[i]
            IN /\ prompt.original = swarm.opinions[i]
               /\ prompt.named = (i + 1) % swarm.num_agents
               /\ prompt.critique.act = "critique"
               /\ prompt.critique.about = i
               /\ prompt.critique.by = prompt.named

====
